---- MODULE Spec2Model ----
(***************************************************************************)
(* A model of the AEO reporting backend (FastAPI + DuckDB).                *)
(*                                                                         *)
(* The loaded table is a sequence of rows (insertion order) over a set of  *)
(* literal column names.  The schema resolver (_create_indexes) maps each  *)
(* semantic field to a literal column name; the query builders of          *)
(* duckdb_service.py and the handlers of duckdb_routes.py / main.py are    *)
(* operators and actions over that table.                                  *)
(***************************************************************************)
EXTENDS Integers, Sequences, FiniteSets, TLC

VARIABLES
    column_names,          \* the literal column names of the main table
    table,                 \* the rows of the main table, in insertion order
    schema,                \* DuckDBService.*_col attributes
    svc_state,             \* "constructed" (before _create_indexes) or "ready"
    request,               \* the request being answered
    response,              \* its response
    first_response,        \* << >>, or the first request of the observed endpoint
                           \* with its response
    cached_cdata,          \* main._cached_cdata
    cached_demand_data,    \* main._cached_demand_data
    handlers,              \* per client: the position of its handler coroutine
    running,               \* the client whose coroutine holds the event loop (0: none)
    cdata_runs,            \* how often DuckDBService.get_cdata has been run
    memo_runs,             \* per cache: how often its transformation has been
                           \* completed by get_cached_cdata / get_cached_demand_data
    main_table,            \* DuckDBService.main_table
    conn                   \* DuckDBService.conn: the description of the result
                           \* of the statement last executed on the connection

vars == << column_names, table, schema, svc_state, request, response,
           first_response, cached_cdata, cached_demand_data, handlers,
           running, cdata_runs, memo_runs, main_table, conn >>

-----------------------------------------------------------------------------
(* Values.  Every cell is text (the sheet is read with dtype=str) or NULL.  *)

\* SQL NULL / Python None; never a cell text of the model.
NULL == "<null>"

\* Python None for an attribute or an optional parameter.
None == "<None>"

\* Python None where a list of texts is expected (Optional[List[str]]).
NoList == << None >>

\* A module global of main.py that is None.
Unset == << >>

-----------------------------------------------------------------------------
(* Bounds of the model.                                                     *)

\* Longest table drawn by Init.
MaxRows == 2

\* Longest value list of one filter field in a request.
MaxVals == 2

\* Largest skip and limit of a paginated request.
MaxSkip == 2

MaxLimit == 2

\* Concurrent clients of the cached endpoints.
NumClients == 2

\* Cap of the counter of aggregation runs.
MaxRuns == 2

\* Fields whose spellings deviate from the table's convention.
MaxDeviating == 1

-----------------------------------------------------------------------------
(* Schema resolver: DuckDBService.__init__ defaults and _create_indexes.    *)

\* The attribute names of the resolved mapping.
SchemaFields ==
    { "program_col", "config_col", "part_col", "rm_supplier_col", "supplier_col",
      "supplier_type_col", "hw_owner_col", "module_col", "esn_col",
      "target_date_col", "level2_pn_col", "level2_raw_type_col" }

\* The attribute values set by __init__ before the table is inspected
\* (supplier_type_col is not set there).
InitSchema ==
    [ program_col         |-> "ENGINE_PROGRAM",
      config_col          |-> "Configuration",
      part_col            |-> "Part_Number",
      rm_supplier_col     |-> "Level_2_Raw_Material_Supplier",
      supplier_col        |-> "Parent_Part_Supplier",
      supplier_type_col   |-> None,
      hw_owner_col        |-> "HW_OWNER",
      module_col          |-> None,
      esn_col             |-> "ESN",
      target_date_col     |-> "Target_Ship_Date",
      level2_pn_col       |-> "Level_2_PN",
      level2_raw_type_col |-> "Level_2_Raw_Type" ]

\* `a if a in column_names else b`
IfPresentMutant(a, b, cols) == IF b \in cols THEN b ELSE a

IfPresent(a, b, cols) == IF a \in cols THEN a ELSE b

\* The assignments of _create_indexes, lines 217-228.
ResolveSchema(cols) ==
    [ program_col         |-> IfPresent("ENGINE_PROGRAM", "ENGINE PROGRAM", cols),
      config_col          |-> IfPresent("Configuration", "CONFIGURATION", cols),
      part_col            |-> IfPresent("Part_Number", "Part Number", cols),
      rm_supplier_col     |-> IfPresent("Level_2_Raw_Material_Supplier",
                                        "Level 2 Raw Material Supplier", cols),
      supplier_col        |-> IfPresent("Parent_Part_Supplier", "Parent Part Supplier", cols),
      supplier_type_col   |-> IfPresent("Supplier_Type", "Supplier Type", cols),
      hw_owner_col        |-> IfPresent("HW_OWNER", "HW OWNER", cols),
      module_col          |-> IfPresent("Module", None, cols),
      esn_col             |-> IfPresent("ESN", "esn", cols),
      target_date_col     |-> IfPresent("Target_Ship_Date", "Target Ship Date", cols),
      level2_pn_col       |-> IfPresent("Level_2_PN", "Level 2 PN", cols),
      level2_raw_type_col |-> IfPresent("Level_2_Raw_Type", "Level 2 Raw Type", cols) ]

-----------------------------------------------------------------------------
(* The table.  A layout names the literal column of each slot of a row; a   *)
(* table is a layout and a sequence of rows drawn from RowTemplates.        *)

Slots == { "program", "config", "hw_owner", "esn", "date", "gap", "priority" }

\* Column sets of the input versions: underscore spellings, space spellings,
\* and an export that lacks the program, date, owner and gap columns.
Layouts ==
    { [ program |-> "ENGINE_PROGRAM", config |-> "Configuration", hw_owner |-> "HW_OWNER",
        esn |-> "ESN", date |-> "Target_Ship_Date", gap |-> "Have_Gap",
        priority |-> "Priority" ],
      [ program |-> "ENGINE PROGRAM", config |-> "Configuration", hw_owner |-> "HW OWNER",
        esn |-> "ESN", date |-> "Target Ship Date", gap |-> "Have_Gap" ],
      [ config |-> "Configuration", esn |-> "ESN" ] }

\* The rows a table is made of, as slot values.
TemplateList ==
    << [ program |-> "LM2500", config |-> "Std", hw_owner |-> "HW1", esn |-> "E1",
         date |-> "2025-11-15", gap |-> "Y", priority |-> "P1" ],
       [ program |-> "LM6000", config |-> "Adv", hw_owner |-> "HW1", esn |-> "E2",
         date |-> "11-15-25", gap |-> "Y", priority |-> "P1" ],
       [ program |-> "LM2500", config |-> "Adv", hw_owner |-> "HW2", esn |-> "E3",
         date |-> "2026-01-01", gap |-> "N", priority |-> "P2" ],
       [ program |-> "nan", config |-> "", hw_owner |-> NULL, esn |-> "E1",
         date |-> NULL, gap |-> "Y", priority |-> "P2" ],
       [ program |-> NULL, config |-> "Std", hw_owner |-> "NaN", esn |-> "",
         date |-> "", gap |-> "Y", priority |-> "p1" ] >>

RowTemplates == { TemplateList[i] : i \in 1..Len(TemplateList) }

ColumnsOf(layout) == { layout[s] : s \in DOMAIN layout }

\* The row of the table that a template gives under a layout: a function from
\* the literal column names to cell values.
RowOf(layout, t) ==
    [ c \in ColumnsOf(layout) |-> t[CHOOSE s \in DOMAIN layout : layout[s] = c] ]

TablesOf(layout) ==
    UNION { [ 1..n -> { RowOf(layout, t) : t \in RowTemplates } ] : n \in 0..MaxRows }

\* One table of each length: the first rows of TemplateList.
SampleTablesOf(layout) ==
    { [ i \in 1..n |-> RowOf(layout, TemplateList[i]) ] : n \in 0..MaxRows }

-----------------------------------------------------------------------------
(* The SQL engine, as far as the statements of the service use it.          *)

\* DuckDB compares identifiers, quoted ones too, without regard to case.
Fold(name) ==
    CASE name \in { "Configuration", "configuration" } -> "CONFIGURATION"
      [] name = "esn"                                  -> "ESN"
      [] name \in { "HW_Owner", "HW_owner" }           -> "HW_OWNER"
      [] name \in { "HW Owner" }                       -> "HW OWNER"
      [] name \in { "Module", "module" }               -> "MODULE"
      [] name \in { "Priority", "priority" }           -> "PRIORITY"
      [] name \in { "Have_Gap", "have_gap" }           -> "HAVE_GAP"
      [] name \in { "Gap_Y_N", "gap_y_n" }             -> "GAP_Y_N"
      [] name \in { "Gap_YN", "gap_yn" }               -> "GAP_YN"
      [] OTHER                                         -> name

\* Whether the statement's column reference binds to a column of the table.
HasColumn(name) == \E c \in column_names : Fold(c) = Fold(name)

\* The column it binds to.
Column(name) == CHOOSE c \in column_names : Fold(c) = Fold(name)

\* row."name"
Cell(row, name) == row[Column(name)]

Range(seq) == { seq[i] : i \in 1..Len(seq) }

\* LIMIT limit OFFSET skip, and Python's seq[skip:skip + limit].
Window(seq, skip, limit) ==
    SubSeq(seq, skip + 1, IF skip + limit < Len(seq) THEN skip + limit ELSE Len(seq))

-----------------------------------------------------------------------------
(* Dates and numbers as text.                                               *)

\* The lexical shape of the date cell texts of RowTemplates: three numeric
\* fields a, b, c around one separator.
DateLex ==
    [ t \in { "2025-11-15", "11-15-25", "2026-01-01" } |->
        CASE t = "2025-11-15" -> [ sep |-> "-", a |-> 2025, b |-> 11, c |-> 15 ]
          [] t = "11-15-25"   -> [ sep |-> "-", a |-> 11,   b |-> 15, c |-> 25 ]
          [] t = "2026-01-01" -> [ sep |-> "-", a |-> 2026, b |-> 1,  c |-> 1 ] ]

NoDate == [ y |-> 0, m |-> 0, d |-> 0 ]

IsLeap(y) == (y % 4 = 0 /\ y % 100 # 0) \/ y % 400 = 0

DaysIn(y, m) ==
    CASE m \in { 4, 6, 9, 11 } -> 30
      [] m = 2                 -> IF IsLeap(y) THEN 29 ELSE 28
      [] OTHER                 -> 31

\* TRY_CAST(text AS DATE): year, month, day in this order; NoDate (SQL NULL)
\* for NULL, for text that is no such date, and for the empty text.
TryCastDate(text) ==
    IF text \notin DOMAIN DateLex THEN NoDate
    ELSE LET l == DateLex[text]
         IN  IF l.a >= 1 /\ l.b \in 1..12 /\ l.c \in 1..DaysIn(l.a, l.b)
             THEN [ y |-> l.a, m |-> l.b, d |-> l.c ]
             ELSE NoDate

\* Python int(text) for the request texts of the model; 0 stands for ValueError
\* (no year of the model is 0).
PyInt(text) ==
    CASE text = "2025" -> 2025
      [] text = "2026" -> 2026
      [] OTHER         -> 0

-----------------------------------------------------------------------------
(* Responses.                                                               *)

NoRequest == [ op |-> "none" ]

NoResponse == [ status |-> 0 ]

\* raise HTTPException(status_code=500, ...) of a handler's except clause.
Error500 == [ status |-> 500 ]

-----------------------------------------------------------------------------
(* DuckDBService.filter_data: a filter dict is a sequence of entries        *)
(* [col, values] in the dict's insertion order, values a list or None.      *)

\* `if values:` -- only a non-empty list adds a clause.
ProvidedMutant(values) == values # NoList

Provided(values) == values # NoList /\ values # << >>

\* The entries that add a WHERE clause.
Clauses(filters) == SelectSeq(filters, LAMBDA e : Provided(e.values))

Max(S) == CHOOSE x \in S : \A y \in S : y <= x

\* params[f"${i}"]: every clause numbers its placeholders from $0, and a later
\* clause overwrites the value an earlier one stored under the same key.
Param(clauses, i) ==
    clauses[Max({ j \in 1..Len(clauses) : Len(clauses[j].values) > i })].values[i + 1]

\* The values clause j's placeholders $0..$n-1 are bound to.
BoundValues(clauses, j) ==
    { Param(clauses, i) : i \in 0..(Len(clauses[j].values) - 1) }

\* "col" IN (...), one per clause, joined with AND.
MatchesClauses(row, clauses) ==
    \A j \in 1..Len(clauses) :
        /\ Cell(row, clauses[j].col) # NULL
        /\ Cell(row, clauses[j].col) \in BoundValues(clauses, j)

\* The result of filter_data: the rows of the DataFrame, or the raised error
\* when a clause names a column the table lacks.
filter_data(filters) ==
    LET clauses == Clauses(filters)
    IN  IF \E j \in 1..Len(clauses) : ~HasColumn(clauses[j].col)
        THEN [ ok |-> FALSE, rows |-> << >> ]
        ELSE [ ok   |-> TRUE,
               rows |-> SelectSeq(table, LAMBDA r : MatchesClauses(r, clauses)) ]

\* POST /api/filter: the query parameters that become filters, each with
\* the column name the handler writes for it, in the handler's order
\* (`years` is accepted and not used).
FilterRouteColumns ==
    << [ param |-> "product_lines", col |-> "ENGINE PROGRAM" ],
       [ param |-> "configs",       col |-> "Configuration" ],
       [ param |-> "suppliers",     col |-> "Parent Part Supplier" ],
       [ param |-> "rm_suppliers",  col |-> "Level 2 Raw Material Supplier" ],
       [ param |-> "hw_owners",     col |-> "HW OWNER" ],
       [ param |-> "part_numbers",  col |-> "Part Number" ],
       [ param |-> "modules",       col |-> "Module" ] >>

\* The filter dict the handler builds: `if product_lines: filters[...] = ...`.
RouteFilters(req) ==
    SelectSeq([ k \in 1..Len(FilterRouteColumns) |->
                  [ param  |-> FilterRouteColumns[k].param,
                    col    |-> FilterRouteColumns[k].col,
                    values |-> req[FilterRouteColumns[k].param] ] ],
              LAMBDA e : Provided(e.values))

\* The handler of POST /api/filter.
FilterRouteResponse(req) ==
    LET res == filter_data(RouteFilters(req))
    IN  IF res.ok
        THEN [ status |-> 200, row_count |-> Len(res.rows), data |-> res.rows ]
        ELSE Error500

-----------------------------------------------------------------------------
(* POST /api/datatable/filter.                                              *)

\* col_map of filter_datatable, derived from the table's column names.
DatatableColMap(cols) ==
    [ ENGINE_PROGRAM                |-> IfPresent("ENGINE_PROGRAM", "ENGINE PROGRAM", cols),
      Configuration                 |-> IfPresent("Configuration", None, cols),
      Parent_Part_Supplier          |-> IfPresent("Parent_Part_Supplier",
                                                  "Parent Part Supplier", cols),
      Level_2_Raw_Material_Supplier |-> IfPresent("Level_2_Raw_Material_Supplier",
                                                  "Level 2 Raw Material Supplier", cols),
      HW_Owner                      |-> IfPresent("HW_Owner", "HW OWNER", cols),
      Module                        |-> IfPresent("Module", None, cols),
      Level_1_PN                    |-> IfPresent("Level_1_PN", "Part Number", cols),
      Target_Ship_Date              |-> IfPresent("Target_Ship_Date", "Target Ship Date", cols) ]

\* The list parameters in the order the handler tests them, each with its
\* col_map key (year is tested second, see DatatableYearClause).
DatatableParams ==
    << [ param |-> "productLines", key |-> "ENGINE_PROGRAM" ],
       [ param |-> "configs",      key |-> "Configuration" ],
       [ param |-> "suppliers",    key |-> "Parent_Part_Supplier" ],
       [ param |-> "rmSuppliers",  key |-> "Level_2_Raw_Material_Supplier" ],
       [ param |-> "hwOwners",     key |-> "HW_Owner" ],
       [ param |-> "modules",      key |-> "Module" ],
       [ param |-> "partNumbers",  key |-> "Level_1_PN" ] >>

\* `if configs and col_map["Configuration"]:` -- for the other keys col_map
\* is never None, so the second test is true.
DatatableClauses(req) ==
    LET col_map == DatatableColMap(column_names)
    IN  SelectSeq([ k \in 1..Len(DatatableParams) |->
                      [ param  |-> DatatableParams[k].param,
                        col    |-> col_map[DatatableParams[k].key],
                        values |-> req[DatatableParams[k].param] ] ],
                  LAMBDA e : Provided(e.values) /\ e.col # None)

\* `if year:` -- a non-empty text adds YEAR(TRY_CAST(date AS DATE)) = int(year).
DatatableYearClause(req) == req.year # None /\ req.year # ""

\* The WHERE clause: positional parameters, so every IN list is bound to
\* its own values.
DatatableMatches(row, req) ==
    /\ \A j \in 1..Len(DatatableClauses(req)) :
          LET e == DatatableClauses(req)[j]
          IN  Cell(row, e.col) # NULL /\ Cell(row, e.col) \in Range(e.values)
    /\ DatatableYearClause(req) =>
          LET d == TryCastDate(Cell(row, DatatableColMap(column_names).Target_Ship_Date))
          IN  d # NoDate /\ d.y = PyInt(req.year)

\* The literal columns the statement refers to.
DatatableAddressed(req) ==
    { DatatableClauses(req)[j].col : j \in 1..Len(DatatableClauses(req)) }
    \cup (IF DatatableYearClause(req)
          THEN { DatatableColMap(column_names).Target_Ship_Date } ELSE { })

\* int(year) raised ValueError, or the statement names a column the table lacks.
DatatableFails(req) ==
    \/ DatatableYearClause(req) /\ PyInt(req.year) = 0
    \/ \E c \in DatatableAddressed(req) : ~HasColumn(c)

\* SELECT COUNT(*) FROM main_table WHERE where_sql
DatatableTotalMutant(req, matching) == Len(Window(matching, req.skip, req.limit))

DatatableTotal(req, matching) == Len(matching)

\* The handler: the count statement, then the page statement with LIMIT ?
\* OFFSET ? (no ORDER BY: the scan returns the rows in insertion order).
DatatableResponse(req) ==
    IF DatatableFails(req) THEN Error500
    ELSE LET matching == SelectSeq(table, LAMBDA r : DatatableMatches(r, req))
             total    == DatatableTotal(req, matching)
             data     == Window(matching, req.skip, req.limit)
         IN  [ status |-> 200, total |-> total, skip |-> req.skip, limit |-> req.limit,
               hasMore |-> (req.skip + req.limit) < total,
               returned_rows |-> Len(data), data |-> data ]

-----------------------------------------------------------------------------
(* Text order and text functions of the engine and of Python.               *)

\* The texts of the model in ascending order of the engine's default (binary)
\* collation.
TextOrder ==
    << "", "1-01", "1-15", "11-15-25", "2", "2025", "2025-11-15", "2026",
       "2026-01-01", "45", "5-25", "Adv", "Casting", "Desc", "E1", "E2", "E3",
       "External", "Forging", "HW1", "HW2", "Internal", "L2A", "L2B", "LM2500",
       "LM6000", "N", "NaN", "P1", "P2", "PN1", "PN2", "RM1", "RM2", "S1", "S2",
       "Std", "Y", "nan", "p1" >>

Rank(text) == CHOOSE i \in 1..Len(TextOrder) : TextOrder[i] = text

\* The texts of S as a list in ascending order / descending order.
RECURSIVE Ascending(_)
Ascending(S) ==
    IF S = { } THEN << >>
    ELSE LET least == CHOOSE x \in S : \A y \in S : Rank(x) <= Rank(y)
         IN  << least >> \o Ascending(S \ { least })

RECURSIVE Descending(_)
Descending(S) ==
    IF S = { } THEN << >>
    ELSE LET most == CHOOSE x \in S : \A y \in S : Rank(x) >= Rank(y)
         IN  << most >> \o Descending(S \ { most })

\* CAST(year AS VARCHAR) and str(year) for the years of the model.
YearText(y) ==
    CASE y = 2025 -> "2025"
      [] y = 2026 -> "2026"

\* SUBSTRING(text, LENGTH(text) - 3, 4): the last four characters of a date
\* text of at least four characters.
LastFour(text) ==
    CASE text = "2025-11-15" -> "1-15"
      [] text = "11-15-25"   -> "5-25"
      [] text = "2026-01-01" -> "1-01"

\* str.isdigit()
IsDigit(text) == text \in { "2025", "2026" }

\* TRIM(text)
Trim(text) == IF text = " " THEN "" ELSE text

-----------------------------------------------------------------------------
(* DuckDBService.get_unique_values and get_years_from_date, and             *)
(* GET /api/filter-options/{column}.                                        *)

\* column_map of get_unique_values; a name that is no key is used as given.
UniqueValuesColumn(column) ==
    CASE column = "ENGINE_PROGRAM"                -> schema.program_col
      [] column = "Configuration"                 -> schema.config_col
      [] column = "Part_Number"                   -> schema.part_col
      [] column = "Level_2_Raw_Material_Supplier" -> schema.rm_supplier_col
      [] column = "Parent_Part_Supplier"          -> schema.supplier_col
      [] column = "HW_OWNER"                      -> schema.hw_owner_col
      [] column = "Module"                        -> schema.level2_raw_type_col
      [] column = "Level_2_Raw_Type"              -> schema.level2_raw_type_col
      [] column = "Level_2_PN"                    -> schema.level2_pn_col
      [] column = "Target_Ship_Date"              -> schema.target_date_col
      [] column = "ESN"                           -> schema.esn_col
      [] OTHER                                    -> column

\* WHERE "col" IS NOT NULL AND "col" != ''
KeptAsUniqueValue(v) == v # NULL /\ v # ""

\* SELECT DISTINCT ... ORDER BY value; [] when the statement fails.
get_unique_values(column) ==
    LET actual == UniqueValuesColumn(column)
    IN  IF ~HasColumn(actual) THEN << >>
        ELSE Ascending({ v \in { Cell(table[i], actual) : i \in 1..Len(table) } :
                            KeptAsUniqueValue(v) })

DefaultYears == << "2025", "2026", "2027", "2028" >>

get_years_from_date(column) ==
    LET col   == IF column \in { "Target_Ship_Date", "Target Ship Date" }
                 THEN schema.target_date_col ELSE column
        cells == { Cell(table[i], col) : i \in 1..Len(table) } \ { NULL, "" }
        years == Descending({ YearText(TryCastDate(t).y) :
                                t \in { u \in cells : TryCastDate(u) # NoDate } })
        tails == Descending({ LastFour(t) : t \in cells })
        kept  == SelectSeq(tails, LAMBDA t : t # "" /\ IsDigit(t))
    IN  IF ~HasColumn(col) THEN DefaultYears
        ELSE IF years # << >> THEN years
        ELSE IF kept # << >> THEN kept
        ELSE DefaultYears

\* valid_columns of get_filter_options.
ValidColumns ==
    { "ENGINE PROGRAM", "Configuration", "Parent Part Supplier",
      "Level 2 Raw Material Supplier", "HW OWNER", "Part Number", "Module",
      "Level 1 Raw Type", "Level 2 Raw Type", "ESN", "Engine Demand Family",
      "Target Ship Date",
      "ENGINE_PROGRAM", "CONFIGURATION", "Parent_Part_Supplier",
      "Level_2_Raw_Material_Supplier", "HW_OWNER", "Part_Number", "MODULE",
      "Level_1_Raw_Type", "Level_2_Raw_Type", "Target_Ship_Date", "Level_2_PN" }

\* raise HTTPException(status_code=...) in the try block of a handler.
HTTPException(status_code) == [ http |-> TRUE, status_code |-> status_code ]

\* The except clauses of the handler: `except HTTPException: raise` comes
\* first and lets the exception pass as it is; `except Exception` answers any
\* other exception with 500.
ExceptClausesMutant(exc) == Error500

ExceptClauses(exc) == IF exc.http THEN [ status |-> exc.status_code ] ELSE Error500

\* The calls of service methods that the handler makes for a request, in
\* their order: none when the column is not in valid_columns, because the
\* raise comes before them.
FilterOptionsCalls(req) ==
    IF req.column \notin ValidColumns THEN << >>
    ELSE IF req.column \in { "Target Ship Date", "Target_Ship_Date" }
            /\ req.extract = "year"
    THEN << [ method |-> "get_years_from_date", column |-> req.column ] >>
    ELSE << [ method |-> "get_unique_values", column |-> req.column ] >>

FilterOptionsResponse(req) ==
    IF req.column \notin ValidColumns THEN ExceptClauses(HTTPException(400))
    ELSE LET values ==
                 IF req.column \in { "Target Ship Date", "Target_Ship_Date" }
                    /\ req.extract = "year"
                 THEN get_years_from_date(req.column)
                 ELSE get_unique_values(req.column)
         IN  [ status |-> 200, column |-> req.column, value_count |-> Len(values),
               values |-> values ]

-----------------------------------------------------------------------------
(* GET /api/datatable/filter-options.                                       *)

\* `a if a in cols else b if b in cols else c`
IfPresent3(a, b, c, cols) == IF a \in cols THEN a ELSE IF b \in cols THEN b ELSE c

\* filter_columns of get_datatable_filter_options.
BulkFilterColumns(cols) ==
    [ productLines |-> IfPresent("ENGINE_PROGRAM", "ENGINE PROGRAM", cols),
      configs      |-> IfPresent("Configuration", None, cols),
      suppliers    |-> IfPresent("Parent_Part_Supplier", "Parent Part Supplier", cols),
      rmSuppliers  |-> IfPresent("Level_2_Raw_Material_Supplier",
                                 "Level 2 Raw Material Supplier", cols),
      hwOwners     |-> IfPresent3("HW_OWNER", "HW Owner", "HW_Owner", cols),
      modules      |-> IfPresent3("Level_2_Raw_Type", "Level 2 Raw Type", "Module", cols),
      partNumbers  |-> IfPresent3("Part_Number", "Level_1_PN", "Part Number", cols) ]

\* AND "Have_Gap" = 'Y' when the table has that column.
InGapScope(row) == "Have_Gap" \in column_names => row["Have_Gap"] = "Y"

\* The list of one filter: [] when its column is None or no column of the
\* table, else the distinct non-NULL values whose trimmed text is not empty,
\* ascending, without the falsy ones (`if v[0]`).
BulkValues(col) ==
    IF col = None \/ col \notin column_names THEN << >>
    ELSE Ascending({ v \in { table[i][col] : i \in { k \in 1..Len(table) :
                                                        InGapScope(table[k]) } } :
                        v # NULL /\ Trim(v) # "" /\ v # "" })

\* years: the distinct years of the dates that cast, descending; a date
\* that does not cast gives NULL, which `if y[0]` drops.
BulkYears ==
    LET date_col == IfPresent("Target_Ship_Date", "Target Ship Date", column_names)
    IN  IF date_col \notin column_names THEN << >>
        ELSE Descending({ YearText(TryCastDate(table[i][date_col]).y) :
                            i \in { k \in 1..Len(table) :
                                      /\ table[k][date_col] # NULL
                                      /\ InGapScope(table[k])
                                      /\ TryCastDate(table[k][date_col]) # NoDate } })

BulkFilterOptionsResponse ==
    LET fc == BulkFilterColumns(column_names)
    IN  [ status |-> 200,
          filterOptions |->
              [ productLines |-> BulkValues(fc.productLines),
                configs      |-> BulkValues(fc.configs),
                suppliers    |-> BulkValues(fc.suppliers),
                rmSuppliers  |-> BulkValues(fc.rmSuppliers),
                hwOwners     |-> BulkValues(fc.hwOwners),
                modules      |-> BulkValues(fc.modules),
                partNumbers  |-> BulkValues(fc.partNumbers),
                years        |-> BulkYears ] ]

-----------------------------------------------------------------------------
(* Initial states: the service constructed over a loaded table, no request  *)
(* yet.                                                                     *)

\* The table "Output" of the external database file data/data-aeo.duckdb.
InitTable ==
    /\ \E layout \in Layouts :
          /\ column_names = ColumnsOf(layout)
          /\ table \in TablesOf(layout)
    /\ main_table = "Output"

\* _initialize_duckdb has run _create_indexes.
InitService ==
    /\ schema = ResolveSchema(column_names)
    /\ svc_state = "ready"

InitIdle ==
    /\ conn = [ description |-> NoList ]
    /\ request = NoRequest
    /\ response = NoResponse
    /\ first_response = << >>
    /\ cached_cdata = Unset
    /\ cached_demand_data = Unset
    /\ handlers = [ c \in 1..NumClients |-> [ pc |-> "idle" ] ]
    /\ running = 0
    /\ cdata_runs = 0
    /\ memo_runs = [ cdata |-> 0, demand |-> 0 ]

Init == InitTable /\ InitService /\ InitIdle

\* What no handler of the filter endpoints writes.  A handler that is
\* modelled as one step reads conn.description only after a statement of its
\* own, and the step leaves the variable as it was; the description is
\* followed where the handlers are modelled statement by statement.
UnchangedService ==
    UNCHANGED << column_names, table, schema, svc_state, main_table, conn >>

UnchangedCaches ==
    UNCHANGED << cached_cdata, cached_demand_data, handlers, running, cdata_runs,
                 memo_runs >>

\* The response has been sent; the server waits for the next request.
Complete ==
    /\ response # NoResponse
    /\ request' = NoRequest
    /\ response' = NoResponse
    /\ UNCHANGED first_response
    /\ UnchangedService /\ UnchangedCaches

-----------------------------------------------------------------------------
(* Requests to the filter endpoints.                                        *)

Lists(S) == UNION { [ 1..n -> S ] : n \in 1..MaxVals }

OptLists(S) == { NoList } \cup Lists(S)

\* The filter dicts given to DuckDBService.filter_data: entries for the
\* resolved program and configuration columns, in either insertion order,
\* each absent, None, empty or a list.
ServiceFilterSets ==
    LET P == { [ param |-> "", col |-> schema.program_col, values |-> v ] :
                  v \in { << >> } \cup OptLists({ "LM2500", "LM6000" }) }
        C == { [ param |-> "", col |-> schema.config_col, values |-> v ] :
                  v \in { NoList, << >>, << "Adv" >> } }
    IN  { << >> } \cup { << e >> : e \in P \cup C }
        \cup { << e, f >> : e \in P, f \in C } \cup { << f, e >> : e \in P, f \in C }

\* A direct call of DuckDBService.filter_data.
CallFilterData ==
    /\ response = NoResponse
    /\ \E filters \in ServiceFilterSets :
          /\ request' = [ op |-> "filter_data", filters |-> filters ]
          /\ response' = LET res == filter_data(filters)
                         IN  IF res.ok THEN [ status |-> 200, data |-> res.rows ]
                             ELSE Error500
    /\ UNCHANGED first_response
    /\ UnchangedService /\ UnchangedCaches

PostFilter ==
    /\ response = NoResponse
    /\ \E pl \in { NoList, << "LM2500" >>, << "LM2500", "LM6000" >> },
          cf \in { NoList, << "Adv" >> },
          hw \in { NoList, << "HW1" >> }, yr \in { NoList, << "2025" >> } :
          LET req == [ op |-> "POST /api/filter", product_lines |-> pl, years |-> yr,
                       configs |-> cf, suppliers |-> NoList, rm_suppliers |-> NoList,
                       hw_owners |-> hw, part_numbers |-> NoList, modules |-> NoList ]
          IN  /\ request' = req
              /\ response' = FilterRouteResponse(req)
    /\ UNCHANGED first_response
    /\ UnchangedService /\ UnchangedCaches

PostDatatableFilter ==
    /\ response = NoResponse
    /\ \E pl \in { NoList, << >>, << "LM2500" >> }, yr \in { None, "2025", "x" },
          cf \in { NoList, << "Adv" >> }, hw \in { NoList },
          skip \in 0..MaxSkip, limit \in 0..MaxLimit :
          LET req == [ op |-> "POST /api/datatable/filter", productLines |-> pl,
                       year |-> yr, configs |-> cf, suppliers |-> NoList,
                       rmSuppliers |-> NoList, hwOwners |-> hw, modules |-> NoList,
                       partNumbers |-> NoList, skip |-> skip, limit |-> limit ]
          IN  /\ request' = req
              /\ response' = DatatableResponse(req)
    /\ UNCHANGED first_response
    /\ UnchangedService /\ UnchangedCaches

NextFilter == CallFilterData \/ PostFilter \/ PostDatatableFilter \/ Complete

SpecFilter == Init /\ [][NextFilter]_vars

-----------------------------------------------------------------------------
(* Properties of the filter operations.                                     *)

\* The rows of the table whose cell under every entry's column is one of
\* the entry's values, in table order.
RowsAccepted(filters) ==
    SelectSeq(table, LAMBDA r :
        \A j \in 1..Len(filters) :
            Cell(r, filters[j].col) \in Range(filters[j].values))

\* A filter set of the kind C1 speaks of: every field with a non-empty list
\* of accepted values, every field a column of the table.
IsFilterSet(filters) ==
    \A j \in 1..Len(filters) :
        /\ filters[j].values # NoList /\ filters[j].values # << >>
        /\ HasColumn(filters[j].col)

\* C1: DuckDBService.filter_data(F) returns exactly the rows r with r[c] in
\* F[c] for every field c of F, also when F names two or more fields.
C1_FilterDataReturnsAcceptedRows ==
    (request.op = "filter_data" /\ IsFilterSet(request.filters))
        => /\ response.status = 200
           /\ response.data = RowsAccepted(request.filters)

\* C1 restricted to filter sets that name one field: there the placeholder
\* keys of no two clauses collide.
C1_SingleFieldFilterData ==
    (request.op = "filter_data" /\ IsFilterSet(request.filters)
        /\ Len(request.filters) = 1)
        => /\ response.status = 200
           /\ response.data = RowsAccepted(request.filters)

\* C2: the total of POST /api/datatable/filter is the number of rows that
\* satisfy the WHERE clause of the filters, whatever skip and limit are: every
\* other window of the same filters has the same total.
C2_TotalIndependentOfWindow ==
    (request.op = "POST /api/datatable/filter" /\ response.status = 200)
        => /\ response.total =
                Cardinality({ i \in 1..Len(table) : DatatableMatches(table[i], request) })
           /\ \A k \in 0..MaxSkip, m \in 0..MaxLimit :
                DatatableResponse([ request EXCEPT !.skip = k, !.limit = m ]).total
                    = response.total

\* A filtered request whose window leaves out matching rows on both sides.
C2_Witness ==
    /\ request.op = "POST /api/datatable/filter"
    /\ response.status = 200
    /\ request.configs # NoList
    /\ request.skip = 1
    /\ request.limit = 1
    /\ response.total = 2
    /\ response.returned_rows = 1

\* An entry or parameter that gives no value: None or the empty list.
GivesNoValue(values) == values = NoList \/ values = << >>

\* The filter dict without the entries that give no value.
WithoutEmptyEntries(filters) ==
    SelectSeq(filters, LAMBDA e : ~GivesNoValue(e.values))

\* The datatable request with every parameter that gives no value set to None.
WithoutEmptyParams(req) ==
    [ f \in DOMAIN req |->
        IF f \in { DatatableParams[k].param : k \in 1..Len(DatatableParams) }
           /\ GivesNoValue(req[f])
        THEN NoList ELSE req[f] ]

\* C3: a filter field given as None or as the empty list filters nothing:
\* the operation answers as it does when the field is absent.
C3_NoValuesMeansNoFilter ==
    /\ request.op = "filter_data" =>
          response = LET res == filter_data(WithoutEmptyEntries(request.filters))
                     IN  IF res.ok THEN [ status |-> 200, data |-> res.rows ]
                         ELSE Error500
    /\ request.op = "POST /api/datatable/filter" =>
          response = DatatableResponse(WithoutEmptyParams(request))

\* A filter dict with an empty entry and a non-empty one, both for columns of
\* the table, answered with rows.
C3_Witness ==
    /\ request.op = "filter_data"
    /\ \A j \in 1..Len(request.filters) : HasColumn(request.filters[j].col)
    /\ \E j \in 1..Len(request.filters) : request.filters[j].values = << >>
    /\ \E j \in 1..Len(request.filters) : ~GivesNoValue(request.filters[j].values)
    /\ response.status = 200
    /\ Len(response.data) >= 1

\* The attribute of the resolved schema that holds the column of the
\* semantic field a request parameter filters on.
SchemaFieldOf(param) ==
    CASE param \in { "product_lines", "productLines" } -> "program_col"
      [] param = "configs"                             -> "config_col"
      [] param = "suppliers"                           -> "supplier_col"
      [] param \in { "rm_suppliers", "rmSuppliers" }   -> "rm_supplier_col"
      [] param \in { "hw_owners", "hwOwners" }         -> "hw_owner_col"
      [] param \in { "part_numbers", "partNumbers" }   -> "part_col"
      [] param = "modules"                             -> "module_col"

\* C6: every filter operation addresses, for each semantic field, the
\* literal column the schema resolver chose at startup.
C6_LookupsUseResolvedSchema ==
    /\ request.op = "POST /api/filter" =>
          \A j \in 1..Len(RouteFilters(request)) :
              RouteFilters(request)[j].col
                  = schema[SchemaFieldOf(RouteFilters(request)[j].param)]
    /\ request.op = "POST /api/datatable/filter" =>
          \A j \in 1..Len(DatatableClauses(request)) :
              DatatableClauses(request)[j].col
                  = schema[SchemaFieldOf(DatatableClauses(request)[j].param)]

-----------------------------------------------------------------------------
(* GET /api/filter-options/{column} and GET /api/datatable/filter-options.  *)

GetFilterOptions ==
    /\ response = NoResponse
    /\ \E column \in ValidColumns \cup { "Priority" }, extract \in { None, "year" } :
          LET req == [ op |-> "GET /api/filter-options", column |-> column,
                       extract |-> extract ]
          IN  /\ request' = req
              /\ response' = FilterOptionsResponse(req)
    /\ UNCHANGED first_response
    /\ UnchangedService /\ UnchangedCaches

GetDatatableFilterOptions ==
    /\ response = NoResponse
    /\ request' = [ op |-> "GET /api/datatable/filter-options" ]
    /\ response' = BulkFilterOptionsResponse
    /\ UNCHANGED first_response
    /\ UnchangedService /\ UnchangedCaches

NextOptions == GetFilterOptions \/ GetDatatableFilterOptions \/ Complete

SpecOptions == Init /\ [][NextOptions]_vars

\* The four empty-like values.
EmptyLike == { "", NULL, "nan", "NaN" }

\* C5: no unique-value list, of the per-field endpoint or of the bulk
\* endpoint, contains "", null, "nan" or "NaN".
C5_UniqueValuesHaveNoEmptyLike ==
    /\ ( /\ request.op = "GET /api/filter-options"
         /\ response.status = 200 )
       => Range(response.values) \cap EmptyLike = { }
    /\ request.op = "GET /api/datatable/filter-options"
       => \A f \in DOMAIN response.filterOptions :
             Range(response.filterOptions[f]) \cap EmptyLike = { }

-----------------------------------------------------------------------------
(* GET /api/gap-analysis/all.                                               *)

\* The first name of the list that is a column of the table, None when none
\* is.
RECURSIVE FirstIn(_, _)
FirstIn(names, cols) ==
    IF names = << >> THEN None
    ELSE IF Head(names) \in cols THEN Head(names)
    ELSE FirstIn(Tail(names), cols)

gap_columns ==
    << "Have_Gap", "Gap_Y_N", "Gap (Y/N)", "Gap_YN", "have_gap", "gap_y_n", "gap_yn" >>

priority_columns == << "Priority", "PRIORITY", "priority" >>

\* The CASE expression of the ORDER BY clause.
PriorityClass(v) ==
    CASE v \in { "P1", "1", "CRITICAL" } -> 1
      [] v \in { "P2", "2", "HIGH" }     -> 2
      [] v \in { "P3", "3", "MEDIUM" }   -> 3
      [] v \in { "P4", "4", "LOW" }      -> 4
      [] OTHER                           -> 5

OneToOne(n) == { p \in [ 1..n -> 1..n ] : \A i, j \in 1..n : p[i] = p[j] => i = j }

\* The orders in which the engine may return rows under the listing's ORDER
\* BY: any order with the priority classes ascending.  Rows of one class are
\* in no specified order.  Without a priority column there is no ORDER BY and
\* the scan keeps the insertion order.
GapOrders(rows, priority_col) ==
    IF priority_col = None THEN { rows }
    ELSE { [ i \in 1..Len(rows) |-> rows[p[i]] ] :
              p \in { q \in OneToOne(Len(rows)) :
                        \A i, j \in 1..Len(rows) :
                            i < j => PriorityClass(rows[q[i]][priority_col])
                                       <= PriorityClass(rows[q[j]][priority_col]) } }

\* The responses the handler may give to one request.
GapAnalysisResponses(req) ==
    LET gap_col      == FirstIn(gap_columns, column_names)
        priority_col == FirstIn(priority_columns, column_names)
        gap_rows     == SelectSeq(table, LAMBDA r : r[gap_col] = "Y")
    IN  IF gap_col = None
        THEN { [ status |-> 200, total |-> 0, skip |-> req.skip, limit |-> req.limit,
                 hasMore |-> FALSE, returned_rows |-> 0, data |-> << >> ] }
        ELSE { [ status |-> 200, total |-> Len(gap_rows), skip |-> req.skip,
                 limit |-> req.limit,
                 hasMore |-> (req.skip + req.limit) < Len(gap_rows),
                 returned_rows |-> Len(Window(ordered, req.skip, req.limit)),
                 data |-> Window(ordered, req.skip, req.limit) ] :
                   ordered \in GapOrders(gap_rows, priority_col) }

\* The handler; first_response keeps the first listing request of the process
\* and its response.
GetGapAnalysisData ==
    /\ response = NoResponse
    /\ \E skip \in 0..MaxSkip, limit \in 0..MaxLimit :
          LET req == [ op |-> "GET /api/gap-analysis/all", skip |-> skip,
                       limit |-> limit ]
          IN  /\ request' = req
              /\ response' \in GapAnalysisResponses(req)
              /\ first_response' =
                     IF first_response = << >>
                     THEN << [ request |-> req, response |-> response' ] >>
                     ELSE first_response
    /\ UnchangedService /\ UnchangedCaches

NextGap == GetGapAnalysisData \/ Complete

SpecGap == Init /\ [][NextGap]_vars

\* C4: two identical calls of the paginated gap listing return the same rows
\* in the same order.
C4_IdenticalCallsSameRows ==
    ( /\ request.op = "GET /api/gap-analysis/all"
      /\ first_response # << >>
      /\ first_response[1].request = request )
    => response.data = first_response[1].response.data

-----------------------------------------------------------------------------
(* The schema resolver at construction: _create_indexes over the column     *)
(* names of the table.                                                      *)

\* The two spellings that _create_indexes tests for each field, in the order
\* of its conditional expression.
Synonyms ==
    [ program_col         |-> << "ENGINE_PROGRAM", "ENGINE PROGRAM" >>,
      config_col          |-> << "Configuration", "CONFIGURATION" >>,
      part_col            |-> << "Part_Number", "Part Number" >>,
      rm_supplier_col     |-> << "Level_2_Raw_Material_Supplier",
                                 "Level 2 Raw Material Supplier" >>,
      supplier_col        |-> << "Parent_Part_Supplier", "Parent Part Supplier" >>,
      hw_owner_col        |-> << "HW_OWNER", "HW OWNER" >>,
      esn_col             |-> << "ESN", "esn" >>,
      target_date_col     |-> << "Target_Ship_Date", "Target Ship Date" >>,
      level2_pn_col       |-> << "Level_2_PN", "Level 2 PN" >>,
      level2_raw_type_col |-> << "Level_2_Raw_Type", "Level 2 Raw Type" >> ]

\* The spelling taken when no spelling of the field is a column: the else
\* branch of the conditional expression.
DefaultSpelling ==
    [ f \in DOMAIN Synonyms |-> Synonyms[f][Len(Synonyms[f])] ]

\* Presence of the spellings of one field in a table.
Presences == { "none", "first", "second", "both" }

SpellingsPresent(f, presence) ==
    CASE presence = "none"   -> { }
      [] presence = "first"  -> { Synonyms[f][1] }
      [] presence = "second" -> { Synonyms[f][2] }
      [] presence = "both"   -> { Synonyms[f][1], Synonyms[f][2] }

\* A table has no two columns whose names differ in case only.
CaseDistinct(cols) == \A c, d \in cols : Fold(c) = Fold(d) => c = d

\* Column sets of loadable tables: one presence for all fields, except for
\* at most MaxDeviating fields, which have another one.
ColumnSets ==
    { cols \in { UNION { SpellingsPresent(f, IF f \in D THEN other ELSE base) :
                           f \in DOMAIN Synonyms } :
                   base \in Presences, other \in Presences,
                   D \in { E \in SUBSET DOMAIN Synonyms : Cardinality(E) <= MaxDeviating } } :
        CaseDistinct(cols) }

\* The service object after the attribute defaults of __init__, before
\* _initialize_duckdb inspects the table.
InitResolver ==
    /\ column_names \in ColumnSets
    /\ table = << >>
    /\ main_table = "Output"
    /\ schema = InitSchema
    /\ svc_state = "constructed"
    /\ InitIdle

\* _create_indexes, lines 211-228; it may be run again over the same table.
CreateIndexes ==
    /\ schema' = ResolveSchema(column_names)
    /\ svc_state' = "ready"
    /\ UNCHANGED << column_names, table, main_table, request, response, first_response,
                    conn >>
    /\ UnchangedCaches

NextResolver == CreateIndexes

SpecResolver == InitResolver /\ [][NextResolver]_vars

\* The fields of the resolver contract.
ContractFields == DOMAIN Synonyms

\* The first spelling of the list that is a column, else the default.
FirstPresentOrDefault(f, cols) ==
    IF FirstIn(Synonyms[f], cols) # None THEN FirstIn(Synonyms[f], cols)
    ELSE DefaultSpelling[f]

-----------------------------------------------------------------------------
(* DuckDBService.get_cdata and get_demand_data.                             *)

\* The outcome of a call that raises.
Raised == [ ok |-> FALSE ]

Returned(value) == [ ok |-> TRUE, value |-> value ]

\* str(n) of the numbers of the model; 0 stands for None.
PyStr(n) ==
    CASE n = 0    -> "None"
      [] n = 1    -> "1"
      [] n = 2    -> "2"
      [] n = 3    -> "3"
      [] n = 4    -> "4"
      [] n = 11   -> "11"
      [] n = 2025 -> "2025"
      [] n = 2026 -> "2026"

\* MONTHNAME(date)[:3]
MonthAbbr(m) ==
    << "Jan", "Feb", "Mar", "Apr", "May", "Jun", "Jul", "Aug", "Sep", "Oct", "Nov",
       "Dec" >>[m]

\* The rows that pass the WHERE clause of get_cdata.
CdataRows ==
    SelectSeq(table, LAMBDA r :
        /\ Cell(r, schema.program_col) \notin { NULL, "" }
        /\ Cell(r, schema.target_date_col) # NULL
        /\ Cell(r, schema.esn_col) # NULL)

\* The GROUP BY key of a row: program, year and month of the cast date (0, 0
\* when the cast gives NULL).
CdataKey(r) ==
    [ PL |-> Cell(r, schema.program_col),
      y  |-> TryCastDate(Cell(r, schema.target_date_col)).y,
      m  |-> TryCastDate(Cell(r, schema.target_date_col)).m ]

\* ORDER BY year, month_num, program; NULL sorts last.
CdataBefore(a, b) ==
    IF (a.y = 0) # (b.y = 0) THEN b.y = 0
    ELSE IF a.y # b.y THEN a.y < b.y
    ELSE IF a.m # b.m THEN a.m < b.m
    ELSE Rank(a.PL) <= Rank(b.PL)

RECURSIVE CdataOrdered(_)
CdataOrdered(keys) ==
    IF keys = { } THEN << >>
    ELSE LET k == CHOOSE x \in keys : \A z \in keys : CdataBefore(x, z)
         IN  << k >> \o CdataOrdered(keys \ { k })

\* One entry of the result list.  The year is written as its text, None as
\* NULL; the two formatted strings are the sequences of their pieces.
CdataEntry(k) ==
    LET rows == SelectSeq(CdataRows, LAMBDA r : CdataKey(r) = k)
        abbr == IF k.m = 0 THEN "Jan" ELSE MonthAbbr(k.m)
    IN  [ PL    |-> k.PL,
          Mon   |-> abbr,
          Year  |-> IF k.y = 0 THEN NULL ELSE PyStr(k.y),
          No    |-> Cardinality({ Cell(rows[i], schema.esn_col) : i \in 1..Len(rows) }),
          MonYr |-> << PyStr(k.y), abbr >>,
          Month |-> << PyStr(k.m), "/1/", PyStr(k.y) >> ]

get_cdata ==
    IF ~( /\ HasColumn(schema.program_col)
          /\ HasColumn(schema.target_date_col)
          /\ HasColumn(schema.esn_col) )
    THEN Raised
    ELSE LET ordered == CdataOrdered({ CdataKey(CdataRows[i]) : i \in 1..Len(CdataRows) })
         IN  Returned([ i \in 1..Len(ordered) |-> CdataEntry(ordered[i]) ])

\* datetime.strptime over the formats of _format_esn, in their order, then
\* strftime("%m/%d/%Y"); the text itself when no format parses it.
FormatShipDate(text) ==
    IF text \notin DOMAIN DateLex THEN text
    ELSE LET l == DateLex[text]
             mdy == IF l.sep = "-" /\ l.a \in 1..12 /\ l.c \in 0..99
                       /\ l.b \in 1..DaysIn(2000 + l.c, l.a)
                    THEN [ y |-> IF l.c < 69 THEN 2000 + l.c ELSE 1900 + l.c,
                           m |-> l.a, d |-> l.b ]
                    ELSE NoDate
             ymd == IF l.sep = "-" /\ l.a \in 1..9999 /\ l.b \in 1..12
                       /\ l.c \in 1..DaysIn(l.a, l.b)
                    THEN [ y |-> l.a, m |-> l.b, d |-> l.c ]
                    ELSE NoDate
             dt  == IF mdy # NoDate THEN mdy ELSE ymd
         IN  CASE dt = NoDate                             -> text
               [] dt = [ y |-> 2025, m |-> 11, d |-> 15 ] -> "11/15/2025"
               [] dt = [ y |-> 2026, m |-> 1, d |-> 1 ]   -> "01/01/2026"

\* _format_esn: None (here << >>) for an ESN that is empty after strip.
format_esn(esn_row) ==
    IF Trim(esn_row.esn) = "" THEN << >>
    ELSE << [ esn |-> Trim(esn_row.esn),
              targetShipDate |-> IF esn_row.target_date \in { NULL, "" } THEN ""
                                 ELSE FormatShipDate(Trim(esn_row.target_date)) ] >>

\* _get_level1_parts on the tables of Layouts: its statement reads the column
\* "QPE", which none of them has, so it raises and the method returns [].
\* Level1PartLists is the method on a table of any column set.
get_level1_parts(program, config) == << >>

\* The rows of a program, and of a program and a configuration.
RowsOfProgram(program) ==
    SelectSeq(table, LAMBDA r : Cell(r, schema.program_col) = program)

RowsOfConfig(program, config) ==
    SelectSeq(RowsOfProgram(program), LAMBDA r : Cell(r, schema.config_col) = config)

\* SELECT DISTINCT esn, target_date ... ORDER BY esn, on the tables of
\* SampleTablesOf, none of which has two dates for one ESN of one
\* configuration.  EsnLists is the statement on any table.
EsnRows(program, config) ==
    LET rows  == RowsOfConfig(program, config)
        pairs == { [ esn |-> Cell(rows[i], schema.esn_col),
                     target_date |-> Cell(rows[i], schema.target_date_col) ] :
                     i \in { j \in 1..Len(rows) :
                               Cell(rows[j], schema.esn_col) \notin { NULL, "" } } }
        esns  == Ascending({ p.esn : p \in pairs })
    IN  [ i \in 1..Len(esns) |-> CHOOSE p \in pairs : p.esn = esns[i] ]

RECURSIVE Flatten(_)
Flatten(seqs) == IF seqs = << >> THEN << >> ELSE Head(seqs) \o Flatten(Tail(seqs))

ConfigEntry(program, config) ==
    LET esns == EsnRows(program, config)
    IN  [ config      |-> config,
          esns        |-> Flatten([ i \in 1..Len(esns) |-> format_esn(esns[i]) ]),
          level1Parts |-> get_level1_parts(program, config) ]

ConfigsOfProgram(program) ==
    LET rows == RowsOfProgram(program)
    IN  Ascending({ Cell(rows[i], schema.config_col) : i \in 1..Len(rows) }
                  \ { NULL, "" })

ProgramEntry(program) ==
    LET configs == ConfigsOfProgram(program)
    IN  IF configs = << >> THEN << >>
        ELSE << [ engineProgram |-> program,
                  configs |-> [ i \in 1..Len(configs) |->
                                  ConfigEntry(program, configs[i]) ] ] >>

get_demand_data ==
    IF ~HasColumn(schema.program_col) THEN Raised
    ELSE LET programs == Ascending({ Cell(table[i], schema.program_col) :
                                       i \in 1..Len(table) } \ { NULL, "" })
         IN  IF programs # << >>
                /\ ~( /\ HasColumn(schema.config_col)
                      /\ HasColumn(schema.esn_col)
                      /\ HasColumn(schema.target_date_col) )
             THEN Raised
             ELSE Returned(Flatten([ i \in 1..Len(programs) |->
                                       ProgramEntry(programs[i]) ]))

-----------------------------------------------------------------------------
(* main.py: the routes, the two memoized values and their handlers, and the *)
(* event loop that runs the handler coroutines.                             *)

\* The routes of the application in the order of their registration:
\* include_router(duckdb_router) comes before the @app.get decorators.
Routes ==
    << [ path |-> "/api/demand/chart-data",
         handler |-> "duckdb_routes.get_demand_chart_data" ],
       [ path |-> "/data/demand-data.json", handler |-> "main.get_demand_data_legacy" ],
       [ path |-> "/data/cdata.json", handler |-> "main.get_cdata_legacy" ],
       [ path |-> "/api/demand/chart-data", handler |-> "main.get_demand_chart_data" ] >>

Paths == { Routes[i].path : i \in 1..Len(Routes) }

\* The router calls the first route that matches.
Dispatch(path) ==
    Routes[CHOOSE i \in 1..Len(Routes) :
             /\ Routes[i].path = path
             /\ \A j \in 1..(i - 1) : Routes[j].path # path].handler

\* The cache a handler reads through get_cached_cdata or
\* get_cached_demand_data; None for a handler that uses neither.
CacheOf(handler) ==
    CASE handler = "main.get_demand_data_legacy" -> "demand"
      [] handler = "main.get_cdata_legacy"       -> "cdata"
      [] handler = "main.get_demand_chart_data"  -> "cdata"
      [] OTHER                                   -> None

Cached(kind) == IF kind = "cdata" THEN cached_cdata ELSE cached_demand_data

\* A global that holds the list `data`, and the list a set global holds.
Holding(data) == << data >>

Held(cache) == cache[1]

\* The transformation behind each cache.
Transformation(kind) == IF kind = "cdata" THEN get_cdata ELSE get_demand_data

\* data[skip:skip + limit]: the list after the expression and its value.
PySliceMutant(data, skip, limit) ==
    [ list |-> Window(data, skip, limit), value |-> Window(data, skip, limit) ]

PySlice(data, skip, limit) ==
    [ list |-> data, value |-> Window(data, skip, limit) ]

\* The handlers are coroutines without an await: the event loop runs one from
\* its first statement to its return before it starts another.
LoopFreeMutant == TRUE

LoopFree == running = 0

\* The response of a handler that got `data` from its cache helper, and the
\* list the helper's global refers to afterwards.
MemoOutcome(h, data) ==
    IF h.handler = "main.get_demand_data_legacy"
    THEN LET sl == PySlice(data, h.skip, h.limit)
         IN  [ list |-> sl.list,
               response |-> [ status |-> 200, data |-> sl.value, total |-> Len(data),
                              skip |-> h.skip, limit |-> h.limit,
                              hasMore |-> (h.skip + h.limit) < Len(data) ] ]
    ELSE [ list |-> data, response |-> [ status |-> 200, data |-> data ] ]

RequestOf(h) == [ op |-> h.path, skip |-> h.skip, limit |-> h.limit ]

Idle == [ pc |-> "idle" ]

SetCache(kind, value) ==
    /\ cached_cdata' = IF kind = "cdata" THEN value ELSE cached_cdata
    /\ cached_demand_data' = IF kind = "demand" THEN value ELSE cached_demand_data

\* The service is constructed; no request has been made.
InitCache ==
    /\ \E layout \in Layouts :
          /\ column_names = ColumnsOf(layout)
          /\ table \in SampleTablesOf(layout)
    /\ main_table = "Output"
    /\ InitService
    /\ InitIdle

\* A client sends a request; it waits for the event loop.
Arrive(c) ==
    /\ handlers[c].pc = "idle"
    /\ \E path \in Paths, skip \in { 0, 1 } :
          handlers' = [ handlers EXCEPT ![c] =
                          [ pc |-> "queued", path |-> path, handler |-> Dispatch(path),
                            skip  |-> IF path = "/data/demand-data.json" THEN skip ELSE 0,
                            limit |-> IF path = "/data/demand-data.json" THEN 1 ELSE 0 ] ]
    /\ UNCHANGED << request, response, first_response, cached_cdata, cached_demand_data,
                    running, cdata_runs, memo_runs >>
    /\ UnchangedService

\* A handler of main.py up to the test of get_cached_*: with the value set
\* it returns it and the handler responds; with None it goes on to the
\* transformation.
CacheLookup(c) ==
    LET h == handlers[c]
        kind == CacheOf(h.handler)
    IN  /\ h.pc = "queued"
        /\ kind # None
        /\ LoopFree
        /\ IF Cached(kind) # Unset
           THEN /\ SetCache(kind, Holding(MemoOutcome(h, Held(Cached(kind))).list))
                /\ request' = RequestOf(h)
                /\ response' = MemoOutcome(h, Held(Cached(kind))).response
                /\ handlers' = [ handlers EXCEPT ![c] = Idle ]
                /\ UNCHANGED running
           ELSE /\ handlers' = [ handlers EXCEPT ![c].pc = "transform" ]
                /\ running' = c
                /\ UNCHANGED << request, response, cached_cdata, cached_demand_data >>
        /\ UNCHANGED << first_response, cdata_runs, memo_runs >>
        /\ UnchangedService

\* The transformation, the assignment of the global and the rest of the
\* handler.  When the transformation raises, the global stays None and the
\* handler responds 500.
Transform(c) ==
    LET h == handlers[c]
        kind == CacheOf(h.handler)
        res == Transformation(kind)
    IN  /\ h.pc = "transform"
        /\ kind = "cdata" => cdata_runs < MaxRuns
        /\ cdata_runs' = IF kind = "cdata" THEN cdata_runs + 1 ELSE cdata_runs
        /\ IF res.ok
           THEN /\ SetCache(kind, Holding(MemoOutcome(h, res.value).list))
                /\ memo_runs' = [ memo_runs EXCEPT ![kind] = @ + 1 ]
                /\ response' = MemoOutcome(h, res.value).response
           ELSE /\ UNCHANGED << cached_cdata, cached_demand_data, memo_runs >>
                /\ response' = Error500
        /\ request' = RequestOf(h)
        /\ handlers' = [ handlers EXCEPT ![c] = Idle ]
        /\ running' = 0
        /\ UNCHANGED first_response
        /\ UnchangedService

\* duckdb_routes.get_demand_chart_data: calls DuckDBService.get_cdata.
RouterChartData(c) ==
    LET h == handlers[c]
        res == get_cdata
    IN  /\ h.pc = "queued"
        /\ h.handler = "duckdb_routes.get_demand_chart_data"
        /\ LoopFree
        /\ cdata_runs < MaxRuns
        /\ cdata_runs' = cdata_runs + 1
        /\ request' = RequestOf(h)
        /\ response' = IF res.ok
                       THEN [ status |-> 200, data |-> res.value,
                              row_count |-> Len(res.value) ]
                       ELSE Error500
        /\ first_response' =
               IF first_response = << >> /\ res.ok
               THEN << [ request |-> request', response |-> response' ] >>
               ELSE first_response
        /\ handlers' = [ handlers EXCEPT ![c] = Idle ]
        /\ UNCHANGED << cached_cdata, cached_demand_data, running, memo_runs >>
        /\ UnchangedService

NextCache ==
    \E c \in 1..NumClients :
        Arrive(c) \/ CacheLookup(c) \/ Transform(c) \/ RouterChartData(c)

SpecCache == InitCache /\ [][NextCache]_vars

CacheKinds == { "cdata", "demand" }

InTransform(kind) ==
    { c \in 1..NumClients :
        handlers[c].pc = "transform" /\ CacheOf(handlers[c].handler) = kind }

\* C8: under any interleaving of concurrent first requests each memoized
\* value is computed at most once: its transformation is completed at most
\* once, no two requests are in it at the same time, and none is in it once
\* the value is set.
C8_ComputedAtMostOnce ==
    \A kind \in CacheKinds :
        /\ memo_runs[kind] <= 1
        /\ Cardinality(InTransform(kind)) <= 1
        /\ Cached(kind) # Unset => InTransform(kind) = { }

\* One request is in the transformation of the chart aggregate while another
\* request for the same value waits, and the first value has been computed
\* by none before.
C8_Witness ==
    \E c, d \in 1..NumClients :
        /\ c # d
        /\ handlers[c].pc = "transform" /\ handlers[c].handler = "main.get_cdata_legacy"
        /\ handlers[d].pc = "queued" /\ handlers[d].handler = "main.get_cdata_legacy"
        /\ Len(table) >= 1 /\ HasColumn(schema.program_col)

\* C9: after the first successful request to GET /api/demand/chart-data, no
\* later request to it runs the aggregation query again.
C9_ChartDataServedFromMemo ==
    [][ ( /\ first_response # << >>
          /\ \E c \in 1..NumClients :
                /\ handlers[c].pc # "idle"
                /\ handlers[c].path = "/api/demand/chart-data"
                /\ handlers'[c].pc = "idle" )
        => cdata_runs' = cdata_runs ]_vars

\* C10: a cache that has been set keeps its value in every later state.
C10_CacheKeepsValue ==
    [][ /\ cached_cdata # Unset => cached_cdata' = cached_cdata
        /\ cached_demand_data # Unset => cached_demand_data' = cached_demand_data ]_vars

\* Both caches are set and a request has been answered from the demand
\* cache with a page that is not the whole list.
C10_Witness ==
    /\ cached_cdata # Unset
    /\ cached_demand_data # Unset
    /\ memo_runs.demand = 1
    /\ request.op = "/data/demand-data.json"
    /\ response.status = 200
    /\ Len(response.data) < Len(Held(cached_demand_data))
    /\ \E c \in 1..NumClients : handlers[c].pc = "queued"

-----------------------------------------------------------------------------
(* Supplier analytics: the grouped counts and the quarterly demand of       *)
(* suppliers.  Their statements read columns that the tables above do not   *)
(* have, so this part of the model has tables of its own.                   *)

\* Column sets: the full export, and one without the supplier type and the
\* quantity per engine.
SupplierLayouts ==
    { [ raw_type |-> "Level_2_Raw_Type", rm_supplier |-> "Level_2_Raw_Material_Supplier",
        level2_pn |-> "Level_2_PN", part |-> "Part_Number",
        supplier |-> "Parent_Part_Supplier", supplier_type |-> "Supplier_Type",
        description |-> "Part_Description", hw_owner |-> "HW_OWNER", qpe |-> "QPE",
        total_lt |-> "Total_LT", date |-> "Target_Ship_Date" ],
      [ raw_type |-> "Level_2_Raw_Type", rm_supplier |-> "Level_2_Raw_Material_Supplier",
        level2_pn |-> "Level_2_PN", part |-> "Part_Number",
        supplier |-> "Parent_Part_Supplier",
        description |-> "Part_Description", hw_owner |-> "HW_OWNER",
        total_lt |-> "Total_LT", date |-> "Target_Ship_Date" ] }

\* The rows of these tables, as slot values.
SupplierTemplateList ==
    << [ raw_type |-> "Casting", rm_supplier |-> "RM1", level2_pn |-> "L2A",
         part |-> "PN1", supplier |-> "S1", supplier_type |-> "Internal",
         description |-> "Desc", hw_owner |-> "HW1", qpe |-> "2", total_lt |-> "45",
         date |-> "2025-11-15" ],
       [ raw_type |-> "Casting", rm_supplier |-> "RM1", level2_pn |-> "L2A",
         part |-> "PN1", supplier |-> "S1", supplier_type |-> "Internal",
         description |-> "Desc", hw_owner |-> "HW2", qpe |-> "2", total_lt |-> "45",
         date |-> "2025-11-15" ],
       [ raw_type |-> "Casting", rm_supplier |-> "RM2", level2_pn |-> "L2B",
         part |-> "PN2", supplier |-> "S2", supplier_type |-> "External",
         description |-> "Desc", hw_owner |-> "HW1", qpe |-> "2", total_lt |-> "45",
         date |-> "2026-01-01" ],
       [ raw_type |-> "Casting", rm_supplier |-> "RM1", level2_pn |-> "L2A",
         part |-> "PN1", supplier |-> "S1", supplier_type |-> "Internal",
         description |-> "Desc", hw_owner |-> "HW1", qpe |-> "2", total_lt |-> "45",
         date |-> "11-15-25" ],
       [ raw_type |-> "Forging", rm_supplier |-> "nan", level2_pn |-> "L2B",
         part |-> "PN2", supplier |-> "S2", supplier_type |-> NULL,
         description |-> NULL, hw_owner |-> "HW1", qpe |-> NULL, total_lt |-> "45",
         date |-> NULL ],
       [ raw_type |-> "Casting", rm_supplier |-> "RM2", level2_pn |-> "L2B",
         part |-> "PN2", supplier |-> "S2", supplier_type |-> "External",
         description |-> "Desc", hw_owner |-> "HW1", qpe |-> "2", total_lt |-> "45",
         date |-> NULL ] >>

SupplierTablesOf(layout) ==
    UNION { [ 1..n -> { RowOf(layout, SupplierTemplateList[i]) :
                          i \in 1..Len(SupplierTemplateList) } ] : n \in 0..MaxRows }

\* CAST(text AS DATE) raises a conversion error where TRY_CAST gives NULL,
\* except for NULL itself, which it casts to NULL.
CastRaises(text) == text # NULL /\ TryCastDate(text) = NoDate

\* CAST(EXTRACT(YEAR FROM CAST(text AS DATE)) AS INTEGER); 0 stands for NULL.
YearOf(text) == TryCastDate(text).y

\* CAST(CEIL(EXTRACT(MONTH FROM CAST(text AS DATE)) / 3.0) AS INTEGER); 0
\* stands for NULL.
QuarterOf(text) == (TryCastDate(text).m + 2) \div 3

\* f"{year}-Q{quarter}", as the three texts it is joined from.
QuarterKey(year, quarter) == << PyStr(year), "-Q", PyStr(quarter) >>

\* x IS NOT NULL AND x != '' AND x != 'NaN' AND x != 'nan'
NamedValue(x) == x \notin { NULL, "", "NaN", "nan" }

\* x IS NOT NULL AND x != ''
NonEmpty(x) == x \notin { NULL, "" }

\* `value or default`
OrDefault(value, default) == IF value \in { NULL, "" } THEN default ELSE value

\* str(total_lt) unless it is None or strips to '', 'nan', 'NaN' or 'None'
MfgLT(total_lt) ==
    IF total_lt = NULL \/ Trim(total_lt) \in { "", "nan", "NaN", "None" } THEN "-"
    ELSE total_lt

\* ORDER BY year: NULL sorts after every year.
NullsLast(n) == IF n = 0 THEN 10000 ELSE n

\* The sequences that list every element of S once.
Listings(S) ==
    { g \in [ 1..Cardinality(S) -> S ] :
        \A i, j \in 1..Cardinality(S) : g[i] = g[j] => i = j }

\* ORDER BY name, part, year, quarter of the quarterly statements.
QuarterlyBefore(a, b) ==
    \/ Rank(a.name) < Rank(b.name)
    \/ /\ a.name = b.name
       /\ \/ Rank(a.part_number) < Rank(b.part_number)
          \/ /\ a.part_number = b.part_number
             /\ \/ NullsLast(a.year) < NullsLast(b.year)
                \/ a.year = b.year /\ a.quarter < b.quarter

\* The orders in which the engine may return the groups: rows that the ORDER
\* BY does not tell apart are in no specified order.
QuarterlyOrders(groups) ==
    { g \in Listings(groups) :
        \A i, j \in 1..Len(g) : i < j => ~QuarterlyBefore(g[j], g[i]) }

\* The loop over the result rows: one entry per (name, part number) in the
\* order of first appearance, with the first row of the pair; each row assigns
\* its count to its quarter key, so the last row of a key stays.
QuarterlyEntries(result) ==
    LET n         == Len(result)
        Same(i,j) == /\ result[i].name = result[j].name
                     /\ result[i].part_number = result[j].part_number
        KeyOf(i)  == QuarterKey(result[i].year, result[i].quarter)
        firsts    == SelectSeq([ i \in 1..n |-> i ],
                               LAMBDA i : \A j \in 1..(i - 1) : ~Same(i, j))
        Last(i,k) == CHOOSE j \in 1..n :
                        /\ Same(i, j) /\ KeyOf(j) = k
                        /\ \A l \in (j + 1)..n : ~(Same(i, l) /\ KeyOf(l) = k)
    IN  [ e \in 1..Len(firsts) |->
            [ first    |-> result[firsts[e]],
              quarters |-> [ k \in { KeyOf(j) : j \in { l \in 1..n : Same(firsts[e], l) } }
                               |-> result[Last(firsts[e], k)].count ] ] ]

\* get_rm_supplier_details_by_raw_material ------------------------------------

\* The columns the statement names.
RmDetailsColumns ==
    { schema.level2_raw_type_col, schema.rm_supplier_col, schema.level2_pn_col,
      schema.part_col, schema.supplier_col, "Part_Description", schema.hw_owner_col,
      "QPE", "Total_LT", schema.target_date_col }

\* The WHERE clause; of the optional filters the requests of the model pass
\* hw_owners only.
RmDetailsWhere(row, raw_material_type, filters) ==
    /\ Cell(row, schema.level2_raw_type_col) = raw_material_type
    /\ NamedValue(Cell(row, schema.rm_supplier_col))
    /\ NonEmpty(Cell(row, schema.level2_pn_col))
    /\ Provided(filters.hw_owners) =>
           Cell(row, schema.hw_owner_col) \in Range(filters.hw_owners)

\* The select list without the count: the GROUP BY key of a row.
RmDetailsGroup(row) ==
    [ name                 |-> Cell(row, schema.rm_supplier_col),
      part_number          |-> Cell(row, schema.level2_pn_col),
      parent_part_no       |-> Cell(row, schema.part_col),
      parent_part_supplier |-> Cell(row, schema.supplier_col),
      part_description     |-> Cell(row, "Part_Description"),
      hwo                  |-> Cell(row, schema.hw_owner_col),
      qpe                  |-> Cell(row, "QPE"),
      total_lt             |-> Cell(row, "Total_LT"),
      year                 |-> YearOf(Cell(row, schema.target_date_col)),
      quarter              |-> QuarterOf(Cell(row, schema.target_date_col)) ]

\* The dict of one (supplier, part number), lines 1225-1236.
RmDetailsEntry(r) ==
    [ name               |-> r.name,
      partNumber         |-> r.part_number,
      parentPartNo       |-> OrDefault(r.parent_part_no, "-"),
      parentPartSupplier |-> OrDefault(r.parent_part_supplier, "-"),
      description        |-> OrDefault(r.part_description, "Raw Material Component"),
      hwo                |-> OrDefault(r.hwo, "HW1"),
      level              |-> "L2",
      qpe                |-> OrDefault(r.qpe, "-"),
      mfgLT              |-> MfgLT(r.total_lt) ]

\* Whether the statement raises: it names a column the table lacks, or a row
\* it keeps has a date text that CAST cannot convert.
QuarterlyRaises(columns, rows, date_col) ==
    \/ \E c \in columns : ~HasColumn(c)
    \/ \E i \in 1..Len(rows) : CastRaises(Cell(rows[i], date_col))

\* GROUP BY ... COUNT(*): the distinct keys of a sequence of GROUP BY keys,
\* each with the number of rows that have it.
Grouped(keys) ==
    { [ k \in DOMAIN keys[j] \cup { "count" } |->
          IF k = "count" THEN Cardinality({ i \in 1..Len(keys) : keys[i] = keys[j] })
          ELSE keys[j][k] ] : j \in 1..Len(keys) }

\* The lists the method may return: [] from the except clause, else the
\* entries of the result in one of the orders the ORDER BY leaves open.
get_rm_supplier_details_by_raw_material(raw_material_type, filters) ==
    LET rows == SelectSeq(table,
                          LAMBDA r : RmDetailsWhere(r, raw_material_type, filters))
        keys == [ i \in 1..Len(rows) |-> RmDetailsGroup(rows[i]) ]
    IN  IF QuarterlyRaises(RmDetailsColumns, rows, schema.target_date_col)
        THEN { << >> }
        ELSE { [ e \in 1..Len(QuarterlyEntries(result)) |->
                   [ entry    |-> RmDetailsEntry(QuarterlyEntries(result)[e].first),
                     quarters |-> QuarterlyEntries(result)[e].quarters ] ] :
                 result \in QuarterlyOrders(Grouped(keys)) }

\* get_supplier_details_by_type ----------------------------------------------

SupplierDetailsColumns ==
    { schema.supplier_col, schema.part_col, "Part_Description", schema.hw_owner_col,
      "QPE", schema.target_date_col, schema.supplier_type_col }

SupplierDetailsWhere(row, supplier_type) ==
    /\ Cell(row, schema.supplier_type_col) = supplier_type
    /\ NamedValue(Cell(row, schema.supplier_col))
    /\ NonEmpty(Cell(row, schema.part_col))

SupplierDetailsGroup(row) ==
    [ name             |-> Cell(row, schema.supplier_col),
      part_number      |-> Cell(row, schema.part_col),
      part_description |-> Cell(row, "Part_Description"),
      hwo              |-> Cell(row, schema.hw_owner_col),
      qpe              |-> Cell(row, "QPE"),
      year             |-> YearOf(Cell(row, schema.target_date_col)),
      quarter          |-> QuarterOf(Cell(row, schema.target_date_col)) ]

\* The dict of one (supplier, part number), lines 1313-1322.
SupplierDetailsEntry(r) ==
    [ name        |-> r.name,
      partNumber  |-> r.part_number,
      description |-> OrDefault(r.part_description, "Part"),
      hwo         |-> OrDefault(r.hwo, "HW1"),
      level       |-> "L1",
      qpe         |-> OrDefault(r.qpe, "-"),
      mfgLT       |-> "-" ]

get_supplier_details_by_type(supplier_type) ==
    LET rows == SelectSeq(table, LAMBDA r : SupplierDetailsWhere(r, supplier_type))
        keys == [ i \in 1..Len(rows) |-> SupplierDetailsGroup(rows[i]) ]
    IN  IF QuarterlyRaises(SupplierDetailsColumns, rows, schema.target_date_col)
        THEN { << >> }
        ELSE { [ e \in 1..Len(QuarterlyEntries(result)) |->
                   [ entry    |-> SupplierDetailsEntry(QuarterlyEntries(result)[e].first),
                     quarters |-> QuarterlyEntries(result)[e].quarters ] ] :
                 result \in QuarterlyOrders(Grouped(keys)) }

\* Grouped counts --------------------------------------------------------------

\* round(count / total * 100, 2) in hundredths of a percent: the quotient
\* rounded to the nearest hundredth, an exact half to the even neighbour.
PercentageMutant(count, total) == (10000 * count) \div total

Percentage(count, total) ==
    LET q == (10000 * count) \div total
        r == (10000 * count) % total
    IN  IF 2 * r > total \/ (2 * r = total /\ q % 2 = 1) THEN q + 1 ELSE q

RECURSIVE Sum(_)
Sum(seq) == IF seq = << >> THEN 0 ELSE Head(seq) + Sum(Tail(seq))

\* total = sum(row[1] for row in result) and the list comprehension that
\* follows it; result is the list of rows [label, count] of the statement.
Distribution(result) ==
    LET total == Sum([ i \in 1..Len(result) |-> result[i].count ])
    IN  [ i \in 1..Len(result) |->
            [ label      |-> result[i].label,
              count      |-> result[i].count,
              percentage |-> IF total > 0 THEN Percentage(result[i].count, total)
                             ELSE 0 ] ]

\* COUNT(DISTINCT column) of the rows of one group.
CountDistinctMutant(rows, column) == Len(rows)

CountDistinct(rows, column) ==
    Cardinality({ Cell(rows[i], column) : i \in 1..Len(rows) } \ { NULL })

\* SELECT group_col, COUNT(DISTINCT counted_col) ... GROUP BY group_col
\* ORDER BY count DESC, over the rows that the WHERE clause keeps: the result
\* lists the statement may return.  Groups of equal count are in no specified
\* order.
GroupedCounts(rows, group_col, counted_col) ==
    LET groups == { [ label |-> l,
                      count |-> CountDistinct(
                                   SelectSeq(rows, LAMBDA r : Cell(r, group_col) = l),
                                   counted_col) ] :
                      l \in { Cell(rows[i], group_col) : i \in 1..Len(rows) } }
    IN  { g \in Listings(groups) :
            \A i, j \in 1..Len(g) : i < j => g[i].count >= g[j].count }

\* get_supplier_type_distribution: [] without a "Supplier_Type" column and
\* from the except clause.
SupplierTypeWhere(row) ==
    /\ NonEmpty(Cell(row, "Supplier_Type"))
    /\ NonEmpty(Cell(row, schema.supplier_col))

get_supplier_type_distribution ==
    IF "Supplier_Type" \notin column_names \/ ~HasColumn(schema.supplier_col)
    THEN { << >> }
    ELSE { Distribution(result) :
             result \in GroupedCounts(SelectSeq(table, SupplierTypeWhere),
                                      "Supplier_Type", schema.supplier_col) }

\* get_rm_supplier_by_raw_material
RawMaterialWhere(row) ==
    /\ NamedValue(Cell(row, schema.level2_raw_type_col))
    /\ NamedValue(Cell(row, schema.rm_supplier_col))

get_rm_supplier_by_raw_material ==
    IF ~HasColumn(schema.level2_raw_type_col) \/ ~HasColumn(schema.rm_supplier_col)
    THEN { << >> }
    ELSE { Distribution(result) :
             result \in GroupedCounts(SelectSeq(table, RawMaterialWhere),
                                      schema.level2_raw_type_col,
                                      schema.rm_supplier_col) }

\* The handlers of the supplier analytics endpoints ---------------------------

\* Every handler returns what its service method returned under the status
\* "success"; the methods raise nothing, so no except clause of a handler runs.
InitSupplier ==
    /\ \E layout \in SupplierLayouts :
          /\ column_names = ColumnsOf(layout)
          /\ table \in SupplierTablesOf(layout)
    /\ main_table = "Output"
    /\ InitService
    /\ InitIdle

RawMaterialTypes == { "Casting", "Forging" }

SupplierTypes == { "Internal", "External" }

GetRmSupplierDetails ==
    /\ response = NoResponse
    /\ \E raw_material_type \in RawMaterialTypes, hw_owners \in { NoList, << "HW1" >> } :
          LET filters == [ hw_owners |-> hw_owners ]
          IN  /\ request' = [ op |-> "GET /api/rm-supplier-details/{raw_material_type}",
                              raw_material_type |-> raw_material_type,
                              filters |-> filters ]
              /\ \E details \in get_rm_supplier_details_by_raw_material(
                                    raw_material_type, filters) :
                    response' = [ status |-> 200, data |-> details,
                                  raw_material_type |-> raw_material_type,
                                  filters_applied |-> filters ]
    /\ UNCHANGED first_response
    /\ UnchangedService /\ UnchangedCaches

GetSupplierDetails ==
    /\ response = NoResponse
    /\ \E supplier_type \in SupplierTypes :
          /\ request' = [ op |-> "GET /api/supplier-details/{supplier_type}",
                          supplier_type |-> supplier_type ]
          /\ \E details \in get_supplier_details_by_type(supplier_type) :
                response' = [ status |-> 200, data |-> details,
                              supplier_type |-> supplier_type ]
    /\ UNCHANGED first_response
    /\ UnchangedService /\ UnchangedCaches

GetSupplierTypeDistribution ==
    /\ response = NoResponse
    /\ request' = [ op |-> "GET /api/supplier-type-distribution" ]
    /\ \E distribution \in get_supplier_type_distribution :
          response' = [ status |-> 200, data |-> distribution ]
    /\ UNCHANGED first_response
    /\ UnchangedService /\ UnchangedCaches

GetRmSupplierByRawMaterial ==
    /\ response = NoResponse
    /\ request' = [ op |-> "GET /api/rm-supplier-by-raw-material" ]
    /\ \E distribution \in get_rm_supplier_by_raw_material :
          response' = [ status |-> 200, data |-> distribution ]
    /\ UNCHANGED first_response
    /\ UnchangedService /\ UnchangedCaches

NextSupplier ==
    \/ GetRmSupplierDetails
    \/ GetSupplierDetails
    \/ GetSupplierTypeDistribution
    \/ GetRmSupplierByRawMaterial
    \/ Complete

SpecSupplier == InitSupplier /\ [][NextSupplier]_vars


\* Whether, in a response of one of the quarterly operations, the row of the
\* table with this name, part number and date has its quarter in the entry of
\* its key.
InItsQuarter(name, part_number, date) ==
    \E e \in 1..Len(response.data) :
        /\ response.data[e].entry.name = name
        /\ response.data[e].entry.partNumber = part_number
        /\ QuarterKey(YearOf(date), QuarterOf(date)) \in DOMAIN response.data[e].quarters

\* C11: in the quarterly-demand operations a row whose target date does not
\* parse is left out of the quarter buckets while the rows whose dates parse
\* are still in theirs; an unparseable date does not empty the result.
C11_UnparseableDateLeavesOthersCounted ==
    \A i \in 1..Len(table) :
        LET row  == table[i]
            date == Cell(row, schema.target_date_col)
        IN  /\ ( /\ request.op = "GET /api/rm-supplier-details/{raw_material_type}"
                 /\ \A c \in RmDetailsColumns : HasColumn(c)
                 /\ RmDetailsWhere(row, request.raw_material_type, request.filters)
                 /\ TryCastDate(date) # NoDate )
               => InItsQuarter(Cell(row, schema.rm_supplier_col),
                               Cell(row, schema.level2_pn_col), date)
            /\ ( /\ request.op = "GET /api/supplier-details/{supplier_type}"
                 /\ \A c \in SupplierDetailsColumns : HasColumn(c)
                 /\ SupplierDetailsWhere(row, request.supplier_type)
                 /\ TryCastDate(date) # NoDate )
               => InItsQuarter(Cell(row, schema.supplier_col),
                               Cell(row, schema.part_col), date)


\* The rows of the table that the request of a quarterly operation selects
\* and that have this name, part number and quarter key.
RowsOfQuarter(name, part_number, key) ==
    { i \in 1..Len(table) :
        LET row  == table[i]
            date == Cell(row, schema.target_date_col)
        IN  /\ key = QuarterKey(YearOf(date), QuarterOf(date))
            /\ IF request.op = "GET /api/rm-supplier-details/{raw_material_type}"
               THEN /\ RmDetailsWhere(row, request.raw_material_type, request.filters)
                    /\ Cell(row, schema.rm_supplier_col) = name
                    /\ Cell(row, schema.level2_pn_col) = part_number
               ELSE /\ SupplierDetailsWhere(row, request.supplier_type)
                    /\ Cell(row, schema.supplier_col) = name
                    /\ Cell(row, schema.part_col) = part_number }

QuarterlyOps ==
    { "GET /api/rm-supplier-details/{raw_material_type}",
      "GET /api/supplier-details/{supplier_type}" }

\* C12: in a result of a quarterly operation every key is "Y-Qn" with n in
\* 1..4, and its count is the number of selected rows of the entry whose date
\* is in month M of year Y with n = ceil(M/3): each row is counted under its
\* key and under no other.
C12_RowsCountedUnderTheirQuarter ==
    request.op \in QuarterlyOps =>
        \A e \in 1..Len(response.data) :
            \A key \in DOMAIN response.data[e].quarters :
                /\ key[3] \in { "1", "2", "3", "4" }
                /\ response.data[e].quarters[key] =
                       Cardinality(RowsOfQuarter(response.data[e].entry.name,
                                                 response.data[e].entry.partNumber, key))

\* The keys of the rows whose dates parse are those of the claim: month 11 of
\* 2025 is under "2025-Q4", month 1 of 2026 under "2026-Q1".
C12_KeysOfParsedDates ==
    /\ QuarterKey(YearOf("2025-11-15"), QuarterOf("2025-11-15")) = << "2025", "-Q", "4" >>
    /\ QuarterKey(YearOf("2026-01-01"), QuarterOf("2026-01-01")) = << "2026", "-Q", "1" >>
    /\ request.op \in QuarterlyOps =>
          \A e \in 1..Len(response.data) :
              \A key \in DOMAIN response.data[e].quarters :
                  \/ key = << "None", "-Q", "None" >>
                  \/ \E i \in RowsOfQuarter(response.data[e].entry.name,
                                            response.data[e].entry.partNumber, key) :
                        LET d == TryCastDate(Cell(table[i], schema.target_date_col))
                        IN  /\ d # NoDate
                            /\ key[1] = PyStr(d.y)
                            /\ \E n \in 1..4 : key[3] = PyStr(n) /\ 3 * (n - 1) < d.m
                                                /\ d.m <= 3 * n


\* The rows of the table that match the filter of the grouped-count operation
\* of the request, as pairs of group value and counted value.
MatchingPairs ==
    IF request.op = "GET /api/supplier-type-distribution"
    THEN [ i \in { j \in 1..Len(table) : SupplierTypeWhere(table[j]) } |->
             << Cell(table[i], "Supplier_Type"), Cell(table[i], schema.supplier_col) >> ]
    ELSE [ i \in { j \in 1..Len(table) : RawMaterialWhere(table[j]) } |->
             << Cell(table[i], schema.level2_raw_type_col),
                Cell(table[i], schema.rm_supplier_col) >> ]

\* Whether the request is one of a grouped-count operation on a table that has
\* the columns of its statement.
GroupedCountAnswered ==
    \/ /\ request.op = "GET /api/supplier-type-distribution"
       /\ "Supplier_Type" \in column_names
       /\ HasColumn(schema.supplier_col)
    \/ /\ request.op = "GET /api/rm-supplier-by-raw-material"
       /\ HasColumn(schema.level2_raw_type_col)
       /\ HasColumn(schema.rm_supplier_col)

SumOfCounts == Sum([ i \in 1..Len(response.data) |-> response.data[i].count ])

\* C13 as stated: the counts of the groups of a grouped-count operation add up
\* to the number of table rows that match the operation's filter.
C13_CountsSumToMatchingRows ==
    GroupedCountAnswered => SumOfCounts = Cardinality(DOMAIN MatchingPairs)

\* C13: the count of a group is the number of distinct suppliers among the
\* matching rows of the group, so the counts add up to the number of distinct
\* pairs of group and supplier among the matching rows, which is at most the
\* number of matching rows.
C13_CountsSumToDistinctPairs ==
    GroupedCountAnswered =>
        /\ \A g \in 1..Len(response.data) :
               response.data[g].count =
                   Cardinality({ MatchingPairs[i] : i \in
                                   { j \in DOMAIN MatchingPairs :
                                       MatchingPairs[j][1] = response.data[g].label } })
        /\ SumOfCounts = Cardinality({ MatchingPairs[i] : i \in DOMAIN MatchingPairs })
        /\ SumOfCounts <= Cardinality(DOMAIN MatchingPairs)

\* Two matching rows of one group name the same supplier: one group of count 1.
C13_Witness ==
    /\ GroupedCountAnswered
    /\ Cardinality(DOMAIN MatchingPairs) = 2
    /\ Len(response.data) = 1
    /\ response.data[1].count = 1


-----------------------------------------------------------------------------
(* The percentages of a grouped count, as a function of the result rows of  *)
(* its statement.                                                           *)

\* Groups of a result.
MaxGroups == 31

\* Count of the largest group.
MaxCount == 2

\* Result lists in the statement's order (count descending): one group of
\* count a, then groups of count 1.  The label of a group is its number.
ResultLists ==
    { [ i \in 1..n |-> [ label |-> i, count |-> IF i = 1 THEN a ELSE 1 ] ] :
        n \in 0..MaxGroups, a \in 1..MaxCount }

InitPercent ==
    /\ column_names = {}
    /\ table = << >>
    /\ main_table = "Output"
    /\ InitService
    /\ InitIdle

\* result = self.conn.execute(query).fetchall()
FetchResult ==
    /\ request = NoRequest
    /\ \E result \in ResultLists :
          request' = [ op |-> "distribution", result |-> result ]
    /\ UNCHANGED << response, first_response >>
    /\ UnchangedService /\ UnchangedCaches

\* The rest of the method and the handler's return.
ReturnDistribution ==
    /\ request # NoRequest
    /\ response = NoResponse
    /\ response' = [ status |-> 200, data |-> Distribution(request.result) ]
    /\ UNCHANGED << request, first_response >>
    /\ UnchangedService /\ UnchangedCaches

NextPercent == FetchResult \/ ReturnDistribution \/ Complete

SpecPercent == InitPercent /\ [][NextPercent]_vars

\* The sum of the percentages of the response, in hundredths of a percent.
SumOfPercentages ==
    Sum([ i \in 1..Len(response.data) |-> response.data[i].percentage ])

Distance(a, b) == IF a < b THEN b - a ELSE a - b

\* C14 as stated: the percentages of the groups add up to 100.0 within 0.1,
\* for any number of groups and any counts.
C14_SumWithinTenth ==
    ( response.status = 200 /\ Len(response.data) >= 1 ) =>
        Distance(SumOfPercentages, 10000) <= 10

\* C14: each percentage is count / sum(counts) * 100 to the nearest
\* hundredth, and the percentages of k >= 1 groups add up to 100 within
\* 0.005 * k, hence within 0.1 for up to 20 groups.
C14_SumWithinHalfHundredthPerGroup ==
    ( response.status = 200 /\ Len(response.data) >= 1 ) =>
        LET total == Sum([ i \in 1..Len(request.result) |-> request.result[i].count ])
        IN  /\ Len(response.data) = Len(request.result)
            /\ \A i \in 1..Len(response.data) :
                   /\ response.data[i].count = request.result[i].count
                   /\ 2 * Distance(response.data[i].percentage * total,
                                   10000 * response.data[i].count) <= total
            /\ 2 * Distance(SumOfPercentages, 10000) <= Len(response.data)
            /\ Len(response.data) <= 20 => Distance(SumOfPercentages, 10000) <= 10

\* 31 groups of count 1: each is 3.23 percent, 100.13 in all.
C14_Witness ==
    /\ response.status = 200
    /\ Len(response.data) = 31
    /\ SumOfPercentages = 10013


-----------------------------------------------------------------------------
(* The demand hierarchy on tables that have the part columns: program,      *)
(* configuration, ESN, level-1 part, level-2 part.  The statements of the   *)
(* ESN and part levels leave the order of their rows open, so the methods   *)
(* are modelled by the sets of lists they may return.                       *)

\* Column sets: the full export, and one without the quantity per engine.
DemandLayouts ==
    { [ program |-> "ENGINE_PROGRAM", config |-> "Configuration", esn |-> "ESN",
        date |-> "Target_Ship_Date", part |-> "Part_Number", hw_owner |-> "HW_OWNER",
        supplier |-> "Parent_Part_Supplier", qpe |-> "QPE", level2_pn |-> "Level_2_PN",
        raw_type |-> "Level_2_Raw_Type",
        rm_supplier |-> "Level_2_Raw_Material_Supplier" ],
      [ program |-> "ENGINE_PROGRAM", config |-> "Configuration", esn |-> "ESN",
        date |-> "Target_Ship_Date", part |-> "Part_Number", hw_owner |-> "HW_OWNER",
        supplier |-> "Parent_Part_Supplier", level2_pn |-> "Level_2_PN",
        raw_type |-> "Level_2_Raw_Type",
        rm_supplier |-> "Level_2_Raw_Material_Supplier" ] }

\* The rows of these tables, as slot values.
DemandTemplateList ==
    << [ program |-> "LM2500", config |-> "Std", esn |-> "E1", date |-> "2025-11-15",
         part |-> "PN2", hw_owner |-> "HW1", supplier |-> "S1", qpe |-> "2",
         level2_pn |-> "L2B", raw_type |-> "Casting", rm_supplier |-> "RM1" ],
       [ program |-> "LM2500", config |-> "Std", esn |-> "E1", date |-> "2026-01-01",
         part |-> "PN1", hw_owner |-> "HW1", supplier |-> "S1", qpe |-> "2",
         level2_pn |-> "L2A", raw_type |-> "Casting", rm_supplier |-> "RM1" ],
       [ program |-> "LM2500", config |-> "Std", esn |-> "E2", date |-> "2025-11-15",
         part |-> "PN2", hw_owner |-> "HW2", supplier |-> "S2", qpe |-> NULL,
         level2_pn |-> "L2A", raw_type |-> "Forging", rm_supplier |-> NULL ],
       [ program |-> "LM2500", config |-> "Adv", esn |-> "E2", date |-> "2025-11-15",
         part |-> "PN1", hw_owner |-> "HW1", supplier |-> "S1", qpe |-> "2",
         level2_pn |-> "L2A", raw_type |-> "Casting", rm_supplier |-> "RM1" ],
       [ program |-> "LM6000", config |-> "", esn |-> "E3", date |-> NULL,
         part |-> "PN1", hw_owner |-> NULL, supplier |-> "S1", qpe |-> "2",
         level2_pn |-> "", raw_type |-> "Casting", rm_supplier |-> "RM1" ] >>

DemandTablesOf(layout) ==
    UNION { [ 1..n -> { RowOf(layout, DemandTemplateList[i]) :
                          i \in 1..Len(DemandTemplateList) } ] : n \in 0..MaxRows }

\* The sequences that take their i-th element from the i-th set of sets.
Choices(sets) ==
    { f \in [ 1..Len(sets) -> UNION Range(sets) ] : \A i \in 1..Len(sets) : f[i] \in sets[i] }

\* str(value): "None" for None.
Str(value) == IF value = NULL THEN "None" ELSE value

\* CAST("QPE" AS INTEGER) of the QPE texts of the model; 0 stands for NULL.
CastInteger(text) ==
    CASE text = NULL -> 0
      [] text = "2"  -> 2
      [] text = "45" -> 45

\* _get_level2_parts: SELECT DISTINCT without ORDER BY, then one dict per row
\* whose part number is not empty after strip; [] from the except clause.
get_level2_parts(program, config, parent_pn) ==
    IF \E c \in { schema.level2_pn_col, schema.level2_raw_type_col,
                  schema.rm_supplier_col, schema.part_col } : ~HasColumn(c)
    THEN { << >> }
    ELSE LET rows   == SelectSeq(RowsOfConfig(program, config),
                           LAMBDA r : /\ Cell(r, schema.part_col) = parent_pn
                                      /\ NonEmpty(Cell(r, schema.level2_pn_col)))
             level2 == { [ pn          |-> Cell(rows[i], schema.level2_pn_col),
                           raw_type    |-> Cell(rows[i], schema.level2_raw_type_col),
                           rm_supplier |-> Cell(rows[i], schema.rm_supplier_col) ] :
                           i \in 1..Len(rows) }
         IN  { Flatten([ i \in 1..Len(l) |->
                           IF Trim(l[i].pn) = "" THEN << >>
                           ELSE << [ pn         |-> Trim(l[i].pn),
                                     rawType    |-> Str(l[i].raw_type),
                                     rmSupplier |-> Str(l[i].rm_supplier) ] >> ]) :
                 l \in Listings(level2) }

\* _get_level1_parts on a table of any column set: SELECT DISTINCT without
\* ORDER BY, one dict per row with the level-2 parts of its part number; []
\* from the except clause.
Level1PartLists(program, config) ==
    IF \E c \in { schema.part_col, schema.hw_owner_col, schema.supplier_col, "QPE" } :
          ~HasColumn(c)
    THEN { << >> }
    ELSE LET rows  == SelectSeq(RowsOfConfig(program, config),
                                LAMBDA r : NonEmpty(Cell(r, schema.part_col)))
             parts == { [ pn       |-> Cell(rows[i], schema.part_col),
                          hw_owner |-> Cell(rows[i], schema.hw_owner_col),
                          supplier |-> Cell(rows[i], schema.supplier_col),
                          qpe      |-> CastInteger(Cell(rows[i], "QPE")) ] :
                          i \in 1..Len(rows) }
         IN  UNION { { [ i \in 1..Len(l) |->
                           [ pn          |-> Trim(l[i].pn),
                             hwo         |-> << Str(l[i].hw_owner) >>,
                             supplier    |-> Str(l[i].supplier),
                             qpe         |-> IF l[i].qpe = 0 THEN 1 ELSE l[i].qpe,
                             level2Parts |-> level2[i] ] ] :
                         level2 \in Choices([ i \in 1..Len(l) |->
                                     get_level2_parts(program, config, Trim(l[i].pn)) ]) } :
                     l \in Listings(parts) }

\* SELECT DISTINCT esn, target_date ... ORDER BY esn, formatted: the rows of
\* one ESN with several dates are in no specified order.
EsnLists(program, config) ==
    LET rows  == RowsOfConfig(program, config)
        pairs == { [ esn |-> Cell(rows[i], schema.esn_col),
                     target_date |-> Cell(rows[i], schema.target_date_col) ] :
                     i \in { j \in 1..Len(rows) : NonEmpty(Cell(rows[j], schema.esn_col)) } }
    IN  { Flatten([ i \in 1..Len(l) |-> format_esn(l[i]) ]) :
            l \in { g \in Listings(pairs) :
                      \A i, j \in 1..Len(g) : i < j => Rank(g[i].esn) <= Rank(g[j].esn) } }

ConfigEntries(program, config) ==
    { [ config |-> config, esns |-> esns, level1Parts |-> level1_parts ] :
        esns \in EsnLists(program, config),
        level1_parts \in Level1PartLists(program, config) }

\* `if config_list:` -- a program without configurations is left out.
ProgramEntries(program) ==
    LET configs == ConfigsOfProgram(program)
    IN  IF configs = << >> THEN { << >> }
        ELSE { << [ engineProgram |-> program, configs |-> config_list ] >> :
                 config_list \in Choices([ i \in 1..Len(configs) |->
                                             ConfigEntries(program, configs[i]) ]) }

\* The programs of the table: SELECT DISTINCT ... ORDER BY program.
Programs ==
    Ascending({ Cell(table[i], schema.program_col) : i \in 1..Len(table) } \ { NULL, "" })

\* get_demand_data_paginated: the lists it may return; it raises when a
\* statement of the program, configuration or ESN level names a missing column.
get_demand_data_paginated(skip, limit) ==
    LET programs == Window(Programs, skip, limit)
    IN  IF \E c \in { schema.program_col, schema.config_col, schema.esn_col,
                      schema.target_date_col } : ~HasColumn(c)
        THEN { Raised }
        ELSE { Returned(Flatten(demand_data)) :
                 demand_data \in Choices([ i \in 1..Len(programs) |->
                                             ProgramEntries(programs[i]) ]) }

\* get_demand_data_count: COUNT(DISTINCT program); 0 from the except clause.
get_demand_data_count ==
    IF ~HasColumn(schema.program_col) THEN 0 ELSE Len(Programs)

InitDemand ==
    /\ \E layout \in DemandLayouts :
          /\ column_names = ColumnsOf(layout)
          /\ table \in DemandTablesOf(layout)
    /\ main_table = "Output"
    /\ InitService
    /\ InitIdle

\* GET /api/demand/programs
GetDemandPrograms ==
    /\ response = NoResponse
    /\ \E skip \in 0..1, limit \in 1..MaxLimit :
          /\ request' = [ op |-> "GET /api/demand/programs", skip |-> skip,
                          limit |-> limit ]
          /\ \E paginated_data \in get_demand_data_paginated(skip, limit) :
                response' =
                    IF ~paginated_data.ok THEN Error500
                    ELSE [ status  |-> 200,
                           data    |-> paginated_data.value,
                           total   |-> get_demand_data_count,
                           skip    |-> skip,
                           limit   |-> limit,
                           hasMore |-> (skip + limit) < get_demand_data_count ]
    /\ UNCHANGED first_response
    /\ UnchangedService /\ UnchangedCaches

NextDemand == GetDemandPrograms \/ Complete

SpecDemand == InitDemand /\ [][NextDemand]_vars


\* The distinct non-empty values of a column among rows, ascending.
ChildValues(rows, column) ==
    Ascending({ Cell(rows[i], column) : i \in 1..Len(rows) } \ { NULL, "" })

DemandAnswered == request.op = "GET /api/demand/programs" /\ response.status = 200

\* The programs of the page are the distinct non-empty programs of the table,
\* ascending, cut to the window.
ProgramLevel ==
    [ p \in 1..Len(response.data) |-> response.data[p].engineProgram ]
        = Window(ChildValues(table, schema.program_col), request.skip, request.limit)

ConfigLevel ==
    \A p \in 1..Len(response.data) :
        [ c \in 1..Len(response.data[p].configs) |-> response.data[p].configs[c].config ]
            = ChildValues(RowsOfProgram(response.data[p].engineProgram), schema.config_col)

EsnLevel ==
    \A p \in 1..Len(response.data) : \A c \in 1..Len(response.data[p].configs) :
        LET entry == response.data[p].configs[c]
        IN  [ e \in 1..Len(entry.esns) |-> entry.esns[e].esn ]
                = ChildValues(RowsOfConfig(response.data[p].engineProgram, entry.config),
                              schema.esn_col)

Level1Level ==
    \A p \in 1..Len(response.data) : \A c \in 1..Len(response.data[p].configs) :
        LET entry == response.data[p].configs[c]
        IN  [ l \in 1..Len(entry.level1Parts) |-> entry.level1Parts[l].pn ]
                = ChildValues(RowsOfConfig(response.data[p].engineProgram, entry.config),
                              schema.part_col)

Level2Level ==
    \A p \in 1..Len(response.data) : \A c \in 1..Len(response.data[p].configs) :
        LET entry == response.data[p].configs[c]
        IN  \A l \in 1..Len(entry.level1Parts) :
                [ m \in 1..Len(entry.level1Parts[l].level2Parts) |->
                    entry.level1Parts[l].level2Parts[m].pn ]
                    = ChildValues(
                          SelectSeq(RowsOfConfig(response.data[p].engineProgram,
                                                 entry.config),
                                    LAMBDA r : Cell(r, schema.part_col)
                                                   = entry.level1Parts[l].pn),
                          schema.level2_pn_col)

\* C15: at every level of the hierarchy of the paginated demand data the
\* children of a node are the distinct non-empty values of the next field
\* among the rows matching the node's filter, each once, in ascending order.
C15_ChildrenDistinctAscending ==
    DemandAnswered =>
        /\ ProgramLevel
        /\ ConfigLevel
        /\ EsnLevel
        /\ HasColumn("QPE") => ( Level1Level /\ Level2Level )

\* The configuration level is as the claim says.
C15_ConfigsDistinctAscending == DemandAnswered => ConfigLevel


-----------------------------------------------------------------------------
(* The SQL passthrough endpoints.  A SQL text is the sequence of its tokens; *)
(* the token " " is a run of whitespace and ";" ends a statement.           *)

SqlTexts ==
    { << "SELECT", "*", "FROM", "Output" >>,
      << " ", "select", "*", "FROM", "Output", " " >>,
      << "SELECT", "1", ";", "DELETE", "FROM", "Output" >>,
      << "SELECTION" >>,
      << "DELETE", "FROM", "Output" >>,
      << " ", "DROP", "TABLE", "Output" >>,
      << >> }

\* str.strip()
RECURSIVE LStrip(_)
LStrip(text) ==
    IF text # << >> /\ Head(text) = " " THEN LStrip(Tail(text)) ELSE text

RECURSIVE RStrip(_)
RStrip(text) ==
    IF text # << >> /\ text[Len(text)] = " " THEN RStrip(SubSeq(text, 1, Len(text) - 1))
    ELSE text

Strip(text) == RStrip(LStrip(text))

\* str.upper() of a token.
Upper(token) == IF token = "select" THEN "SELECT" ELSE token

\* sql.strip().upper().startswith("SELECT"): whether the first characters of
\* the stripped text are the letters of SELECT, whatever follows them.
StartsWithSelect(sql) ==
    Strip(sql) # << >> /\ Upper(Head(Strip(sql))) \in { "SELECT", "SELECTION" }

\* The statements of a text: its tokens without whitespace, cut at ";".
RECURSIVE Statements(_)
Statements(text) ==
    LET tokens == SelectSeq(text, LAMBDA t : t # " ")
        cut    == IF \E i \in 1..Len(tokens) : tokens[i] = ";"
                  THEN CHOOSE i \in 1..Len(tokens) :
                          tokens[i] = ";" /\ \A j \in 1..(i - 1) : tokens[j] # ";"
                  ELSE Len(tokens) + 1
    IN  IF tokens = << >> THEN << >>
        ELSE << SubSeq(tokens, 1, cut - 1) >>
                 \o Statements(SubSeq(tokens, cut + 1, Len(tokens)))

\* The engine on one statement over the rows of the main table: the rows
\* after it and its result, or a failure.  The connection is opened with
\* read_only=False, so a DELETE or DROP is carried out.
ExecuteStatement(statement, rows) ==
    LET verb == Upper(Head(statement))
        rest == Tail(statement)
    IN  CASE verb = "SELECT" /\ rest = << "*", "FROM", main_table >> ->
                [ ok |-> TRUE, rows |-> rows, result |-> rows ]
          [] verb = "SELECT" /\ rest = << "1" >> ->
                [ ok |-> TRUE, rows |-> rows, result |-> << [ one |-> "1" ] >> ]
          [] verb = "DELETE" /\ rest = << "FROM", main_table >> ->
                [ ok |-> TRUE, rows |-> << >>,
                  result |-> << [ Count |-> Len(rows) ] >> ]
          [] OTHER ->
                [ ok |-> FALSE, rows |-> rows, result |-> << >> ]

\* conn.execute(sql).fetchall(): the statements run in turn, each committed
\* as it ends; the result is that of the last one.  A failure ends the run.
RECURSIVE Execute(_, _)
Execute(statements, rows) ==
    IF statements = << >> THEN [ ok |-> FALSE, rows |-> rows, result |-> << >> ]
    ELSE LET first == ExecuteStatement(Head(statements), rows)
         IN  IF ~first.ok \/ Len(statements) = 1 THEN first
             ELSE Execute(Tail(statements), first.rows)

\* self.output_df: main.py constructs the service without load_output_sheet,
\* so the attribute keeps the None of __init__.
output_df == None

\* GET /api/query
ExecuteQuery ==
    /\ response = NoResponse
    /\ \E sql \in SqlTexts :
          LET run == Execute(Statements(sql), table)
          IN  /\ request' = [ op |-> "GET /api/query", sql |-> sql ]
              /\ IF ~StartsWithSelect(sql)
                 THEN /\ response' = [ status |-> 400 ]
                      /\ table' = table
                 ELSE /\ response' = IF run.ok
                                     THEN [ status |-> 200, row_count |-> Len(run.result),
                                            data |-> run.result ]
                                     ELSE Error500
                      /\ table' = run.rows
    /\ UNCHANGED << column_names, schema, svc_state, main_table, first_response, conn >>
    /\ UnchangedCaches

\* GET /api/output-query: the test of output_df comes before the test of the
\* text.  `not output_df` is true for None; for a DataFrame it raises
\* TypeError, which the handler turns into 500.
QueryOutputData ==
    /\ response = NoResponse
    /\ \E sql \in SqlTexts :
          request' = [ op |-> "GET /api/output-query", sql |-> sql ]
    /\ response' = IF output_df = None THEN [ status |-> 404 ] ELSE Error500
    /\ UNCHANGED first_response
    /\ UnchangedService /\ UnchangedCaches

NextQuery == ExecuteQuery \/ QueryOutputData \/ Complete

SpecQuery == Init /\ [][NextQuery]_vars

PassthroughOps == { "GET /api/query", "GET /api/output-query" }

\* The first token of the text that is not whitespace, in upper case; "" for
\* a text without one.
FirstToken(sql) == IF Strip(sql) = << >> THEN "" ELSE Upper(Head(Strip(sql)))

\* C16: the passthrough endpoints answer 400 to every text whose first token
\* is not SELECT, and leave the table as it was.
C16_NonSelectRejectedWith400 ==
    ( request.op \in PassthroughOps /\ FirstToken(request.sql) # "SELECT" )
        => response.status = 400

\* GET /api/query answers 400 to every text that does not begin with the
\* letters of SELECT, and such a text changes nothing.
C16_QueryRejectsOtherPrefixes ==
    [][ \A sql \in SqlTexts :
          ( /\ request' = [ op |-> "GET /api/query", sql |-> sql ]
            /\ response = NoResponse
            /\ FirstToken(sql) \notin { "SELECT", "SELECTION" } )
          => ( response'.status = 400 /\ table' = table ) ]_vars

\* C17: no request changes the rows or the columns of the main table.
C17_RequestsLeaveTableUnchanged ==
    [][ table' = table /\ column_names' = column_names /\ main_table' = main_table ]_vars


\* Whether the statement of the quarterly operation of the request fails for
\* a reason other than a missing column: a row it keeps has a date text that
\* CAST cannot convert.
DateCastFails ==
    \/ /\ request.op = "GET /api/rm-supplier-details/{raw_material_type}"
       /\ \A c \in RmDetailsColumns : HasColumn(c)
       /\ \E i \in 1..Len(table) :
             /\ RmDetailsWhere(table[i], request.raw_material_type, request.filters)
             /\ CastRaises(Cell(table[i], schema.target_date_col))
    \/ /\ request.op = "GET /api/supplier-details/{supplier_type}"
       /\ \A c \in SupplierDetailsColumns : HasColumn(c)
       /\ \E i \in 1..Len(table) :
             /\ SupplierDetailsWhere(table[i], request.supplier_type)
             /\ CastRaises(Cell(table[i], schema.target_date_col))

\* C18: a failure of a statement that is not a missing column is answered
\* with an error status, never with "success" and an empty result.
C18_FailuresAnsweredWithError ==
    DateCastFails => response.status >= 400


-----------------------------------------------------------------------------
(* GET /api/gap-analysis/kpis, and the endpoints that answer without the    *)
(* column they need.                                                        *)

\* gap_columns and priority_columns of get_gap_analysis_kpis.
kpi_gap_columns ==
    << "Have_Gap", "Gap_Y_N", "Gap (Y/N)", "Gap_YN", "have_gap", "gap_y_n", "gap_yn",
       "Have Gap", "Gap Y/N" >>

kpi_priority_columns ==
    << "Priority", "PRIORITY", "priority", "Priority_Level", "PRIORITY_LEVEL" >>

\* `if not gap_col:`
NoGapColumnMutant(gap_col) == FALSE

NoGapColumn(gap_col) == gap_col = None

\* str(row[0]).upper() if row[0] else 'UNKNOWN', mapped to P1..P4; 0 for a
\* value of no level.
KpiPriorityLevel(value) ==
    LET priority_value == CASE value \in { NULL, "" } -> "UNKNOWN"
                            [] value = "p1"           -> "P1"
                            [] OTHER                  -> value
    IN  CASE priority_value \in { "P1", "1", "CRITICAL", "HIGH PRIORITY" } -> 1
          [] priority_value \in { "P2", "2", "HIGH" }                      -> 2
          [] priority_value \in { "P3", "3", "MEDIUM", "MED" }             -> 3
          [] priority_value \in { "P4", "4", "LOW" }                       -> 4
          [] OTHER                                                         -> 0

\* The dict of the except clause, and of a table without a gap column.
ZeroKpis(total_status, status) ==
    [ totalGaps        |-> [ count |-> 0, status |-> total_status ],
      criticalPriority |-> [ count |-> 0, status |-> status ],
      highPriority     |-> [ count |-> 0, status |-> status ],
      mediumPriority   |-> [ count |-> 0, status |-> status ],
      lowPriority      |-> [ count |-> 0, status |-> status ],
      onTrack          |-> [ count |-> 0, status |-> status ] ]

get_gap_analysis_kpis ==
    LET gap_col      == FirstIn(kpi_gap_columns, column_names)
        priority_col == FirstIn(kpi_priority_columns, column_names)
        total_count  == Len(table)
        gap_rows     == SelectSeq(table, LAMBDA r : r[gap_col] = "Y")
        gap_count    == Len(gap_rows)
        Level(n)     == Len(SelectSeq(gap_rows,
                                      LAMBDA r : KpiPriorityLevel(r[priority_col]) = n))
        Priority(n, text) ==
            IF priority_col = None THEN [ count |-> 0, status |-> "No Priority Data" ]
            ELSE [ count |-> Level(n), status |-> IF Level(n) > 0 THEN text ELSE "None" ]
    IN  IF NoGapColumn(gap_col) THEN ZeroKpis("No Gap Column", "N/A")
        ELSE IF gap_col \notin column_names THEN ZeroKpis("Error", "Error")
        ELSE [ totalGaps |->
                   [ count          |-> gap_count,
                     status         |-> "{gap_percentage}% Gap",
                     gap_percentage |-> IF total_count > 0
                                        THEN Percentage(gap_count, total_count) ELSE 0 ],
               onTrack          |-> [ count  |-> total_count - gap_count,
                                      status |-> "Meeting targets" ],
               criticalPriority |-> Priority(1, "P1 - Past Due"),
               highPriority     |-> Priority(2, "P2 - Due Soon"),
               mediumPriority   |-> Priority(3, "P3 - Upcoming"),
               lowPriority      |-> Priority(4, "P4 - Low Risk") ]

\* GET /api/gap-analysis/kpis
GetGapAnalysisKpis ==
    /\ response = NoResponse
    /\ request' = [ op |-> "GET /api/gap-analysis/kpis" ]
    /\ response' = [ status |-> 200, kpis |-> get_gap_analysis_kpis ]
    /\ UNCHANGED first_response
    /\ UnchangedService /\ UnchangedCaches

\* The service on one table of each length of every column set.
InitSample ==
    /\ \E layout \in Layouts :
          /\ column_names = ColumnsOf(layout)
          /\ table \in SampleTablesOf(layout)
    /\ main_table = "Output"
    /\ InitService
    /\ InitIdle

NextAbsent ==
    \/ GetFilterOptions
    \/ GetGapAnalysisData
    \/ GetGapAnalysisKpis
    \/ Complete

SpecAbsent == InitSample /\ [][NextAbsent]_vars

KpiNames ==
    { "totalGaps", "criticalPriority", "highPriority", "mediumPriority", "lowPriority",
      "onTrack" }

\* C19: without the column that the operation needs, the values of a column
\* are the empty list, the gap listing has total 0 and no rows, the gap KPIs
\* are the zero counts of the table without a gap column; each is answered
\* with 200, and the service stays ready for the next request.
C19_AbsentColumnDegrades ==
    /\ ( /\ request.op = "GET /api/filter-options"
         /\ request.column \in ValidColumns
         /\ ~( request.column \in { "Target Ship Date", "Target_Ship_Date" }
               /\ request.extract = "year" )
         /\ ~HasColumn(UniqueValuesColumn(request.column)) )
       => ( /\ response.status = 200
            /\ response.values = << >>
            /\ response.value_count = 0 )
    /\ ( /\ request.op = "GET /api/gap-analysis/all"
         /\ \A i \in 1..Len(gap_columns) : gap_columns[i] \notin column_names )
       => ( /\ response.status = 200
            /\ response.total = 0
            /\ response.data = << >> )
    /\ ( /\ request.op = "GET /api/gap-analysis/kpis"
         /\ \A i \in 1..Len(kpi_gap_columns) : kpi_gap_columns[i] \notin column_names )
       => ( /\ response.status = 200
            /\ \A k \in KpiNames : response.kpis[k].count = 0
            /\ response.kpis.totalGaps.status = "No Gap Column" )
    /\ svc_state = "ready"
    /\ response # NoResponse => ENABLED Complete

\* A table with rows and without a gap column has answered the gap listing
\* with total 0 and now answers the KPIs with zero counts.
C19_Witness ==
    /\ table # << >>
    /\ \A i \in 1..Len(kpi_gap_columns) : kpi_gap_columns[i] \notin column_names
    /\ first_response # << >>
    /\ first_response[1].response.total = 0
    /\ request.op = "GET /api/gap-analysis/kpis"
    /\ response.status = 200
    /\ response.kpis.onTrack.count = 0


\* C20: GET /api/filter-options/{column} with a column that is not in the
\* valid list is answered with 400, not 500, and calls no service method, so
\* no statement runs and the response carries no values.
C20_InvalidColumnAnswered400 ==
    ( request.op = "GET /api/filter-options" /\ request.column \notin ValidColumns )
        => ( /\ response.status = 400
             /\ FilterOptionsCalls(request) = << >>
             /\ "values" \notin DOMAIN response )

\* The column exists in the table and has values, but is not in the list.
C20_Witness ==
    /\ request.op = "GET /api/filter-options"
    /\ request.column = "Priority"
    /\ "Priority" \in column_names
    /\ table # << >>
    /\ response.status = 400


-----------------------------------------------------------------------------
(* The gap listing as a whole: content, total and paging.                   *)

\* The rows of the table whose cell in the listing's gap column is 'Y'.
GapRecords ==
    LET gap_col == FirstIn(gap_columns, column_names)
    IN  IF gap_col = None THEN << >>
        ELSE SelectSeq(table, LAMBDA r : r[gap_col] = "Y")

\* The first listing request of the process asked for the first window and
\* the current one asks for the window after it, and the two windows reach
\* the end of the listing.
TwoWindowsToTheEnd ==
    /\ request.op = "GET /api/gap-analysis/all"
    /\ first_response # << >>
    /\ first_response[1].request.skip = 0
    /\ first_response[1].request.limit > 0
    /\ request.skip = first_response[1].request.limit
    /\ request.skip + request.limit >= Len(GapRecords)

\* The content and the total of one answer of the listing.
C21_OnlyGapRecordsAndTotal ==
    ( request.op = "GET /api/gap-analysis/all"
      /\ FirstIn(gap_columns, column_names) # None )
    => ( /\ \A i \in 1..Len(response.data) :
               response.data[i][FirstIn(gap_columns, column_names)] = "Y"
         /\ response.total = Len(GapRecords)
         /\ ( Len(GapRecords) = 1 /\ request.skip = 0 /\ request.limit > 0 )
               => Len(response.data) = 1 )

\* C21: on a table with a gap column the listing returns only records whose
\* gap column is 'Y', its total is the number of such records, a table with
\* one such record yields that one record, and the windows of a paging
\* through the listing return every such record.
C21_GapListingPagesThroughEveryRecord ==
    /\ C21_OnlyGapRecordsAndTotal
    /\ ( TwoWindowsToTheEnd /\ FirstIn(gap_columns, column_names) # None )
       => Range(GapRecords)
            \subseteq ( Range(first_response[1].response.data) \cup Range(response.data) )


-----------------------------------------------------------------------------
(* The route table of the application for GET, and the filter-option        *)
(* endpoints behind it.  A path is the sequence of its segments: "/" is     *)
(* << >>, and a path that ends in "/" has "" as its last segment.           *)

\* The path parameters of the route declarations.
PathParams == { "{column}", "{raw_material_type}", "{supplier_type}", "{filename}",
                "{section_name}" }

\* The GET routes in the order of their registration: html_router
\* (main.py:45), duckdb_router under the prefix /api (main.py:46), then the
\* @app.get decorators of main.py.
GetRoutes ==
    << [ path |-> << >>, handler |-> "html_routes.index" ],
       [ path |-> << "demand" >>, handler |-> "html_routes.page" ],
       [ path |-> << "demand-modular" >>, handler |-> "html_routes.page" ],
       [ path |-> << "test-dependencies" >>, handler |-> "html_routes.page" ],
       [ path |-> << "debug-loading" >>, handler |-> "html_routes.page" ],
       [ path |-> << "datatable" >>, handler |-> "html_routes.page" ],
       [ path |-> << "bom-explosion" >>, handler |-> "html_routes.page" ],
       [ path |-> << "gap-analysis" >>, handler |-> "html_routes.page" ],
       [ path |-> << "gap-analysis-v1" >>, handler |-> "html_routes.page" ],
       [ path |-> << "demand.html" >>, handler |-> "html_routes.page" ],
       [ path |-> << "demand-modular.html" >>, handler |-> "html_routes.page" ],
       [ path |-> << "datatable.html" >>, handler |-> "html_routes.page" ],
       [ path |-> << "BOMexplosion.html" >>, handler |-> "html_routes.page" ],
       [ path |-> << "GapAnalysis.html" >>, handler |-> "html_routes.page" ],
       [ path |-> << "index.html" >>, handler |-> "html_routes.page" ],
       [ path |-> << "styles.css" >>, handler |-> "html_routes.file" ],
       [ path |-> << "src", "css", "{filename}" >>, handler |-> "html_routes.file" ],
       [ path |-> << "src", "{filename}" >>, handler |-> "html_routes.file" ],
       [ path |-> << "src", "sections", "{section_name}", "{filename}" >>,
         handler |-> "html_routes.file" ],
       [ path |-> << "src", "sections", "{filename}" >>, handler |-> "html_routes.file" ],
       [ path |-> << "src", "images", "{filename}" >>, handler |-> "html_routes.file" ],
       [ path |-> << "api", "filter-options", "{column}" >>,
         handler |-> "duckdb_routes.get_filter_options" ],
       [ path |-> << "api", "stats" >>, handler |-> "duckdb_routes.get_stats" ],
       [ path |-> << "api", "query" >>, handler |-> "duckdb_routes.execute_query" ],
       [ path |-> << "api", "output-data" >>, handler |-> "duckdb_routes.get_output_data" ],
       [ path |-> << "api", "output-info" >>, handler |-> "duckdb_routes.get_output_info" ],
       [ path |-> << "api", "output-query" >>,
         handler |-> "duckdb_routes.query_output_data" ],
       [ path |-> << "api", "datatable", "filter-options" >>,
         handler |-> "duckdb_routes.get_datatable_filter_options" ],
       [ path |-> << "api", "demand", "programs" >>,
         handler |-> "duckdb_routes.get_demand_programs" ],
       [ path |-> << "api", "demand", "chart-data" >>,
         handler |-> "duckdb_routes.get_demand_chart_data" ],
       [ path |-> << "api", "supplier-details" >>,
         handler |-> "duckdb_routes.get_supplier_details" ],
       [ path |-> << "api", "supplier-type-distribution" >>,
         handler |-> "duckdb_routes.get_supplier_type_distribution" ],
       [ path |-> << "api", "hw-owner-by-part-complexity" >>,
         handler |-> "duckdb_routes.get_hw_owner_by_part_complexity" ],
       [ path |-> << "api", "rm-supplier-by-raw-material" >>,
         handler |-> "duckdb_routes.get_rm_supplier_by_raw_material" ],
       [ path |-> << "api", "rm-supplier-details", "{raw_material_type}" >>,
         handler |-> "duckdb_routes.get_rm_supplier_details" ],
       [ path |-> << "api", "supplier-details", "{supplier_type}" >>,
         handler |-> "duckdb_routes.get_supplier_details_by_type" ],
       [ path |-> << "api", "gap-analysis", "all" >>,
         handler |-> "duckdb_routes.get_gap_analysis_data" ],
       [ path |-> << "api", "gap-analysis", "kpis" >>,
         handler |-> "duckdb_routes.get_gap_analysis_kpis" ],
       [ path |-> << "data", "demand-data.json" >>,
         handler |-> "main.get_demand_data_legacy" ],
       [ path |-> << "data", "cdata.json" >>, handler |-> "main.get_cdata_legacy" ],
       [ path |-> << "api", "datatable", "all" >>, handler |-> "main.get_datatable_all" ],
       [ path |-> << "api", "demand", "programs" >>,
         handler |-> "main.get_demand_programs" ],
       [ path |-> << "api", "demand", "chart-data" >>,
         handler |-> "main.get_demand_chart_data" ] >>

\* A route matches a path of as many segments whose segments are those of
\* the declaration; a path parameter matches any segment that is not empty.
RouteMatches(route, path) ==
    /\ Len(route.path) = Len(path)
    /\ \A i \in 1..Len(path) :
          \/ route.path[i] = path[i]
          \/ route.path[i] \in PathParams /\ path[i] # ""

\* The path with its trailing slash removed or added.
ToggleSlash(path) ==
    IF path # << >> /\ path[Len(path)] = "" THEN SubSeq(path, 1, Len(path) - 1)
    ELSE Append(path, "")

\* What the router does with a GET of the path: it calls the handler of the
\* first route that matches; when none matches and one matches the path with
\* the trailing slash toggled, it redirects to that path; else it answers
\* 404.
ResolveRoute(path) ==
    LET matching(p) == { i \in 1..Len(GetRoutes) : RouteMatches(GetRoutes[i], p) }
    IN  IF matching(path) # { }
        THEN GetRoutes[CHOOSE i \in matching(path) :
                           \A j \in matching(path) : i <= j].handler
        ELSE IF path # << >> /\ matching(ToggleSlash(path)) # { } THEN "redirect"
        ELSE "not_found"

\* Paths that clients of the filter options request.
OptionPaths ==
    { << "api", "filter-options" >>, << "api", "filter-options", "" >>,
      << "api", "datatable", "filter-options" >>,
      << "api", "datatable", "filter-options", "" >>,
      << "api", "filter-options", "all" >> }
    \cup { << "api", "filter-options", column >> :
              column \in { "ENGINE_PROGRAM", "Configuration", "HW_OWNER", "ESN",
                           "Target_Ship_Date", "Priority" } }

\* A GET of one of the paths, from the router to the response.
GetOptionPath ==
    /\ response = NoResponse
    /\ \E path \in OptionPaths, extract \in { None, "year" } :
          LET handler == ResolveRoute(path)
              req     == [ op |-> "GET", path |-> path, handler |-> handler,
                           column |-> IF Len(path) = 3 THEN path[3] ELSE None,
                           extract |-> extract ]
          IN  /\ request' = req
              /\ response' =
                   CASE handler = "duckdb_routes.get_filter_options"
                          -> FilterOptionsResponse(req)
                     [] handler = "duckdb_routes.get_datatable_filter_options"
                          -> BulkFilterOptionsResponse
                     [] handler = "redirect"  -> [ status |-> 307 ]
                     [] OTHER                 -> [ status |-> 404 ]
    /\ UNCHANGED first_response
    /\ UnchangedService /\ UnchangedCaches

NextRouter == GetOptionPath \/ Complete

SpecRouter == Init /\ [][NextRouter]_vars

\* The keys of the bulk filter options.
FilterableFields ==
    { "productLines", "years", "configs", "suppliers", "rmSuppliers", "hwOwners",
      "modules", "partNumbers" }

\* C22: GET /api/filter-options, without a path parameter, is routed and is
\* answered with a success envelope whose `data` holds a list of unique
\* values for every filterable field.
C22_BulkFilterOptionsRouted ==
    ( request.op = "GET" /\ request.path = << "api", "filter-options" >> )
    => ( /\ request.handler \notin { "not_found", "redirect" }
         /\ response.status = 200
         /\ "data" \in DOMAIN response
         /\ FilterableFields \subseteq DOMAIN response.data )

\* The lists of all fields are served, under the key filterOptions, by
\* GET /api/datatable/filter-options.
C22_BulkListsAtDatatableFilterOptions ==
    ( request.op = "GET"
      /\ request.path = << "api", "datatable", "filter-options" >> )
    => ( /\ response.status = 200
         /\ DOMAIN response.filterOptions = FilterableFields )


-----------------------------------------------------------------------------
(* The paginated endpoints side by side.                                    *)

\* get_all_output_data: SELECT * FROM main_table as a list of dicts.
get_all_output_data == table

\* GET /api/datatable/all (main.py): all records, then the slice.
GetDatatableAll ==
    /\ response = NoResponse
    /\ \E skip \in 0..MaxSkip, limit \in 0..MaxLimit :
          LET all_records       == get_all_output_data
              total             == Len(all_records)
              paginated_records == PySlice(all_records, skip, limit).value
          IN  /\ request' = [ op |-> "GET /api/datatable/all", skip |-> skip,
                              limit |-> limit ]
              /\ response' = [ status |-> 200, data |-> paginated_records,
                               total |-> total, skip |-> skip, limit |-> limit,
                               hasMore |-> (skip + limit) < total ]
    /\ UNCHANGED first_response
    /\ UnchangedService /\ UnchangedCaches

NextPaging ==
    \/ PostDatatableFilter
    \/ GetGapAnalysisData
    \/ GetDemandPrograms
    \/ GetDatatableAll
    \/ Complete

SpecPaging == Init /\ [][NextPaging]_vars

PaginatedOps ==
    { "POST /api/datatable/filter", "GET /api/gap-analysis/all",
      "GET /api/demand/programs", "GET /api/datatable/all" }

\* min(limit, max(0, total - skip))
WindowLength(total, skip, limit) ==
    LET rest == IF total - skip > 0 THEN total - skip ELSE 0
    IN  IF limit < rest THEN limit ELSE rest

\* The answer of a paginated endpoint has the window's flag and length.
PageAsItsTotalSays ==
    /\ response.hasMore = ( request.skip + request.limit < response.total )
    /\ Len(response.data) = WindowLength(response.total, request.skip, request.limit)

\* C23: every paginated endpoint answers, for all non-negative skip and
\* limit, with hasMore true exactly when skip + limit < total and with
\* min(limit, max(0, total - skip)) items.
C23_HasMoreAndWindowLength ==
    ( request.op \in PaginatedOps /\ response.status = 200 ) => PageAsItsTotalSays

\* The same for the endpoints other than the demand programs.
C23_RowEndpointsWindow ==
    ( request.op \in PaginatedOps \ { "GET /api/demand/programs" }
      /\ response.status = 200 ) => PageAsItsTotalSays

\* hasMore of the demand programs is skip + limit < total.
C23_DemandHasMore ==
    ( request.op = "GET /api/demand/programs" /\ response.status = 200 )
    => response.hasMore = ( request.skip + request.limit < response.total )


-----------------------------------------------------------------------------
(* The shared connection, statement by statement.  A handler executes its   *)
(* statements on DuckDBService.conn and labels the rows of the last one     *)
(* with conn.description; the handlers are coroutines of one event loop.    *)

\* The columns of the sheet in their order; the columns of a table are those
\* of them that it has.
ColumnOrder ==
    << "ENGINE_PROGRAM", "ENGINE PROGRAM", "Configuration", "HW_OWNER", "HW OWNER", "ESN",
       "Target_Ship_Date", "Target Ship Date", "Have_Gap", "Priority" >>

\* [col[0] for col in conn.description] after SELECT * FROM main_table.
ColumnList == SelectSeq(ColumnOrder, LAMBDA c : c \in column_names)

\* A row as fetchall() returns it: the tuple of its cells.
RowTuple(row) == [ i \in 1..Len(ColumnList) |-> row[ColumnList[i]] ]

\* dict(zip(columns, row)): as many pairs as the shorter of the two has; a
\* name that comes twice keeps its last value.
DictZip(columns, row) ==
    LET n == IF Len(columns) < Len(row) THEN Len(columns) ELSE Len(row)
    IN  [ name \in { columns[i] : i \in 1..n } |->
            row[CHOOSE i \in 1..n :
                  columns[i] = name /\ \A j \in (i + 1)..n : columns[j] # name] ]

\* Texts sent to GET /api/query.
QueryTexts ==
    { << "SELECT", "*", "FROM", "Output" >>, << "SELECT", "1" >>,
      << "DELETE", "FROM", "Output" >> }

\* The statements a handler executes, in their order.  filter_datatable
\* without filter parameters: the column check, the count, the page;
\* execute_query: the text, through DuckDBService.query.
HandlerStatements(h) ==
    IF h.handler = "duckdb_routes.filter_datatable"
    THEN << [ kind |-> "columns" ], [ kind |-> "count" ],
            [ kind |-> "page", skip |-> h.skip, limit |-> h.limit ] >>
    ELSE << [ kind |-> "text", sql |-> h.sql ] >>

\* conn.execute(statement): the description of its result and the tuples
\* that fetchall() returns.
StatementResult(statement) ==
    CASE statement.kind = "columns" ->
            [ description |-> ColumnList, rows |-> << >> ]
      [] statement.kind = "count" ->
            [ description |-> << "count_star()" >>, rows |-> << << Len(table) >> >> ]
      [] statement.kind = "page" ->
            [ description |-> ColumnList,
              rows |-> [ i \in 1..Len(Window(table, statement.skip, statement.limit)) |->
                           RowTuple(Window(table, statement.skip, statement.limit)[i]) ] ]
      [] statement.kind = "text" /\ statement.sql = << "SELECT", "1" >> ->
            [ description |-> << "1" >>, rows |-> << << 1 >> >> ]
      [] OTHER ->
            [ description |-> ColumnList,
              rows |-> [ i \in 1..Len(table) |-> RowTuple(table[i]) ] ]

\* The request of a handler record, as the atomic models of the handlers
\* write it.
ConnRequest(h) ==
    IF h.handler = "duckdb_routes.filter_datatable"
    THEN [ op |-> "POST /api/datatable/filter", productLines |-> NoList, year |-> None,
           configs |-> NoList, suppliers |-> NoList, rmSuppliers |-> NoList,
           hwOwners |-> NoList, modules |-> NoList, partNumbers |-> NoList,
           skip |-> h.skip, limit |-> h.limit ]
    ELSE [ op |-> "GET /api/query", sql |-> h.sql ]

\* A client sends a request; it waits for the event loop.
Receive(c) ==
    /\ handlers[c].pc = "idle"
    /\ \/ \E skip \in { 0, 1 } :
             handlers' = [ handlers EXCEPT ![c] =
                             [ pc |-> "queued", handler |-> "duckdb_routes.filter_datatable",
                               skip |-> skip, limit |-> 1, sql |-> << >> ] ]
       \/ \E sql \in QueryTexts :
             handlers' = [ handlers EXCEPT ![c] =
                             [ pc |-> "queued", handler |-> "duckdb_routes.execute_query",
                               skip |-> 0, limit |-> 0, sql |-> sql ] ]
    /\ UNCHANGED << request, response, first_response, cached_cdata, cached_demand_data,
                    running, cdata_runs, memo_runs >>
    /\ UnchangedService

\* The event loop starts the coroutine: the handler up to its first
\* statement.  execute_query answers 400 to a text that does not start with
\* SELECT.
StartHandler(c) ==
    LET h == handlers[c]
    IN  /\ h.pc = "queued"
        /\ LoopFree
        /\ IF h.handler = "duckdb_routes.execute_query" /\ ~StartsWithSelect(h.sql)
           THEN /\ request' = ConnRequest(h)
                /\ response' = [ status |-> 400 ]
                /\ handlers' = [ handlers EXCEPT ![c] = Idle ]
                /\ UNCHANGED running
           ELSE /\ handlers' = [ handlers EXCEPT ![c] =
                                   [ pc |-> "execute", handler |-> h.handler,
                                     skip |-> h.skip, limit |-> h.limit, sql |-> h.sql,
                                     todo |-> HandlerStatements(h),
                                     last |-> [ kind |-> "none" ],
                                     total |-> 0, result |-> << >> ] ]
                /\ running' = c
                /\ UNCHANGED << request, response >>
        /\ UNCHANGED << first_response, cached_cdata, cached_demand_data, cdata_runs,
                        memo_runs >>
        /\ UnchangedService

\* conn.execute(...).fetchall() of the handler's next statement.
ExecuteNext(c) ==
    LET h         == handlers[c]
        statement == Head(h.todo)
        executed  == StatementResult(statement)
    IN  /\ h.pc = "execute"
        /\ conn' = [ description |-> executed.description ]
        /\ handlers' = [ handlers EXCEPT ![c] =
                           [ h EXCEPT !.pc     = IF Tail(h.todo) = << >> THEN "label"
                                                 ELSE "execute",
                                      !.todo   = Tail(h.todo),
                                      !.last   = statement,
                                      !.total  = IF statement.kind = "count"
                                                 THEN executed.rows[1][1] ELSE @,
                                      !.result = executed.rows ] ]
        /\ UNCHANGED << request, response, first_response, cached_cdata,
                        cached_demand_data, running, cdata_runs, memo_runs >>
        /\ UNCHANGED << column_names, table, schema, svc_state, main_table >>

\* columns = [col[0] for col in conn.description]; the rows as dicts; the
\* handler returns.
LabelRows(c) ==
    LET h       == handlers[c]
        columns == conn.description
        data    == [ i \in 1..Len(h.result) |-> DictZip(columns, h.result[i]) ]
    IN  /\ h.pc = "label"
        /\ request' = ConnRequest(h)
        /\ response' =
             IF h.handler = "duckdb_routes.filter_datatable"
             THEN [ status |-> 200, total |-> h.total, skip |-> h.skip,
                    limit |-> h.limit, hasMore |-> (h.skip + h.limit) < h.total,
                    returned_rows |-> Len(data), data |-> data ]
             ELSE [ status |-> 200, row_count |-> Len(data), data |-> data ]
        /\ handlers' = [ handlers EXCEPT ![c] = Idle ]
        /\ running' = 0
        /\ UNCHANGED << first_response, cached_cdata, cached_demand_data, cdata_runs,
                        memo_runs >>
        /\ UnchangedService

NextConn ==
    \E c \in 1..NumClients :
        Receive(c) \/ StartHandler(c) \/ ExecuteNext(c) \/ LabelRows(c)

SpecConn == InitCache /\ [][NextConn]_vars

\* The columns of the result that the request's rows come from.
OwnColumns(req) ==
    IF req.op = "GET /api/query"
    THEN StatementResult([ kind |-> "text", sql |-> req.sql ]).description
    ELSE ColumnList

\* C24: under every interleaving of two requests on the shared connection,
\* the description from which a handler takes the column names of its rows
\* is that of the statement it executed itself, and the rows of its response
\* carry the column names of its own query.
C24_RowsLabelledByOwnQuery ==
    /\ \A c \in 1..NumClients :
          handlers[c].pc = "label"
              => conn.description = StatementResult(handlers[c].last).description
    /\ ( request.op \in { "POST /api/datatable/filter", "GET /api/query" }
         /\ response.status = 200 )
       => \A i \in 1..Len(response.data) :
             DOMAIN response.data[i] = Range(OwnColumns(request))

\* A handler is about to label the rows of its page while a request whose
\* query has other columns waits for the event loop, after an answer that
\* was labelled with the columns of a third statement.
C24_Witness ==
    /\ table # << >>
    /\ \E c, d \in 1..NumClients :
          /\ handlers[c].pc = "label"
          /\ handlers[c].handler = "duckdb_routes.filter_datatable"
          /\ handlers[c].result # << >>
          /\ handlers[d].pc = "queued"
          /\ handlers[d].handler = "duckdb_routes.execute_query"
          /\ handlers[d].sql = << "SELECT", "1" >>
    /\ request.op = "GET /api/query"
    /\ response.status = 200


-----------------------------------------------------------------------------
(* The order of the gap listing against the priority classes of the KPIs.   *)

\* The urgency of a priority value as get_gap_analysis_kpis counts it: 1 to
\* 4 for P1 to P4, 5 for a value of no class.
KpiUrgency(value) == IF KpiPriorityLevel(value) = 0 THEN 5 ELSE KpiPriorityLevel(value)

\* The records of a page, and those of two consecutive pages, are in the
\* order of the given classes of their priority values.
ListingOrderedBy(class) ==
    LET priority_col == FirstIn(priority_columns, column_names)
        page         == response.data
        before       == first_response[1].response.data
    IN  /\ \A i, j \in 1..Len(page) :
              i < j => class[page[i][priority_col]] <= class[page[j][priority_col]]
        /\ ( /\ first_response # << >>
             /\ request.skip = first_response[1].request.skip
                                 + first_response[1].request.limit )
           => \A i \in 1..Len(before), j \in 1..Len(page) :
                 class[before[i][priority_col]] <= class[page[j][priority_col]]

\* The priority values of the table.
PriorityValues ==
    { table[i][FirstIn(priority_columns, column_names)] : i \in 1..Len(table) }

GapListingWithPriority ==
    /\ request.op = "GET /api/gap-analysis/all"
    /\ FirstIn(gap_columns, column_names) # None
    /\ FirstIn(priority_columns, column_names) # None

\* C25: with a priority column the gap listing is sorted by priority class,
\* most urgent first, within a page and across consecutive pages, the class
\* of a value being the one the gap KPIs count it in (letter case ignored).
C25_ListingSortedByKpiClass ==
    GapListingWithPriority
        => ListingOrderedBy([ v \in PriorityValues |-> KpiUrgency(v) ])

\* The listing is sorted by the classes of its own ORDER BY expression.
C25_ListingSortedByOwnClass ==
    GapListingWithPriority
        => ListingOrderedBy([ v \in PriorityValues |-> PriorityClass(v) ])


-----------------------------------------------------------------------------
(* The gap listing and the gap KPIs on the same table.                      *)

\* The column sets of Layouts, and the export with space spellings whose gap
\* flag is the column "Have Gap".
GapLayouts ==
    Layouts \cup
    { [ program |-> "ENGINE PROGRAM", config |-> "Configuration", hw_owner |-> "HW OWNER",
        esn |-> "ESN", date |-> "Target Ship Date", gap |-> "Have Gap",
        priority |-> "Priority" ] }

InitGapNames ==
    /\ \E layout \in GapLayouts :
          /\ column_names = ColumnsOf(layout)
          /\ table \in TablesOf(layout)
    /\ main_table = "Output"
    /\ InitService
    /\ InitIdle

NextAgree == GetGapAnalysisData \/ GetGapAnalysisKpis \/ Complete

SpecAgree == InitGapNames /\ [][NextAgree]_vars

\* The listing has been asked and the KPIs are being answered.
ListingThenKpis ==
    /\ request.op = "GET /api/gap-analysis/kpis"
    /\ response.status = 200
    /\ first_response # << >>
    /\ first_response[1].response.status = 200

\* C26: on every table the total of the gap listing equals totalGaps.count
\* of the gap KPIs.
C26_ListingTotalEqualsKpiCount ==
    ListingThenKpis
        => first_response[1].response.total = response.kpis.totalGaps.count

\* The two agree on a table whose gap column is in the list of the listing,
\* and on a table that has no column of the list of the KPIs.
C26_AgreeOnCommonNames ==
    ( /\ ListingThenKpis
      /\ FirstIn(gap_columns, column_names) = FirstIn(kpi_gap_columns, column_names) )
        => first_response[1].response.total = response.kpis.totalGaps.count


-----------------------------------------------------------------------------
(* From the offered filter options back into the datatable filter.          *)

\* The list parameters of POST /api/datatable/filter; each has the name of
\* its key in filterOptions.
ListFields ==
    { "productLines", "configs", "suppliers", "rmSuppliers", "hwOwners", "modules",
      "partNumbers" }

\* The request that filters by one value of one field.
SingleValueFilter(f, v) ==
    [ g \in ListFields |-> IF g = f THEN << v >> ELSE NoList ]
      @@ [ op |-> "POST /api/datatable/filter", year |-> IF f = "years" THEN v ELSE None,
           skip |-> 0, limit |-> MaxLimit ]

\* A client takes one value that GET /api/datatable/filter-options offers
\* for a field and posts it as the only filter.
PostOfferedValue ==
    /\ response = NoResponse
    /\ \E f \in ListFields \cup { "years" } :
          \E v \in Range(BulkFilterOptionsResponse.filterOptions[f]) :
              /\ request' = SingleValueFilter(f, v)
              /\ response' = DatatableResponse(SingleValueFilter(f, v))
    /\ UNCHANGED first_response
    /\ UnchangedService /\ UnchangedCaches

NextOffered == GetDatatableFilterOptions \/ PostOfferedValue \/ Complete

SpecOffered == Init /\ [][NextOffered]_vars

\* The answer to the filter by value v of field f: success, at least one
\* row, and every returned row has v in the column the option came from
\* (for years: a date of that year).
RoundTrips(f, v) ==
    /\ response.status = 200
    /\ response.total >= 1
    /\ \A i \in 1..Len(response.data) :
          IF f = "years"
          THEN YearText(TryCastDate(response.data[i][
                   IfPresent("Target_Ship_Date", "Target Ship Date", column_names)]).y) = v
          ELSE response.data[i][BulkFilterColumns(column_names)[f]] = v

\* C27: every value that the filter options offer for a field, posted as
\* the only value of that field, is answered with success, a total of at
\* least 1, and rows that all have the value in the option's column.
C27_OfferedValuesRoundTrip ==
    request.op = "POST /api/datatable/filter"
        => /\ \A f \in ListFields : request[f] # NoList => RoundTrips(f, request[f][1])
           /\ request.year # None => RoundTrips("years", request.year)

\* The round trip of the fields that both endpoints read from the same
\* column: productLines, configs and years.
C27_SameColumnFieldsRoundTrip ==
    request.op = "POST /api/datatable/filter"
        => /\ \A f \in { "productLines", "configs" } :
                 request[f] # NoList => RoundTrips(f, request[f][1])
           /\ request.year # None => RoundTrips("years", request.year)


-----------------------------------------------------------------------------
(* The pages of the demand programs against their total and against the     *)
(* unpaginated hierarchy.                                                   *)

\* get_demand_data on a table of any column set: the statements and loops of
\* get_demand_data_paginated without LIMIT and OFFSET, so the lists it may
\* return are those of the window that holds every program.
DemandDataLists == get_demand_data_paginated(0, Len(table))

\* The first page is the last one: paging from skip 0 ends with it.
WholeListingInOnePage == DemandAnswered /\ request.skip = 0 /\ ~response.hasMore

\* C28: the total of GET /api/demand/programs is the number of program
\* entries of all its pages together, and the pages together are the
\* unpaginated hierarchy of get_demand_data; no program is counted in total
\* and absent from every page.
C28_TotalIsNumberOfPagedPrograms ==
    WholeListingInOnePage
        => /\ Len(response.data) = response.total
           /\ Returned(response.data) \in DemandDataLists

\* The pages together are a hierarchy that get_demand_data may return.
C28_PagesAreTheUnpaginatedHierarchy ==
    WholeListingInOnePage => Returned(response.data) \in DemandDataLists


-----------------------------------------------------------------------------
(* The entries of get_cdata against the dates they come from.               *)

\* The rows of the table that the entry is derived from: rows of its program
\* whose target date parses to a date of its year and month.
RowsOfEntry(entry) ==
    SelectSeq(CdataRows, LAMBDA r :
        LET date == TryCastDate(Cell(r, schema.target_date_col))
        IN  /\ date # NoDate
            /\ Cell(r, schema.program_col) = entry.PL
            /\ PyStr(date.y) = entry.Year
            /\ MonthAbbr(date.m) = entry.Mon)

\* The entry is that of parsed dates: it has a year, rows with such a date,
\* and counts the ESNs of those rows.
FromParsedDates(entry) ==
    /\ entry.Year # NULL
    /\ RowsOfEntry(entry) # << >>
    /\ entry.No = Cardinality({ Cell(RowsOfEntry(entry)[i], schema.esn_col) :
                                  i \in 1..Len(RowsOfEntry(entry)) })

CdataAnswered ==
    /\ request.op \in { "/api/demand/chart-data", "/data/cdata.json" }
    /\ response.status = 200

\* C29: every entry of get_cdata comes from parsed target dates: its Year is
\* not null, its Mon is the abbreviation of the month of such a date, and a
\* row whose target date does not parse contributes to no entry.
C29_EntriesFromParsedDates ==
    CdataAnswered => \A i \in 1..Len(response.data) : FromParsedDates(response.data[i])

\* The entries that have a year are those of the parsed dates.
C29_DatedEntriesFromParsedDates ==
    CdataAnswered
        => \A i \in 1..Len(response.data) :
              response.data[i].Year # NULL => FromParsedDates(response.data[i])


-----------------------------------------------------------------------------
(* DataService.get_filter_options: the years of the date column.  Here a    *)
(* date text is the sequence of its characters, and the data frame is the   *)
(* table with the date column alone, without nulls.                         *)

DigitChars == << "0", "1", "2", "3", "4", "5", "6", "7", "8", "9" >>

\* The number as two and as four digits: %m, %d, %y and %Y of strftime.
Pad2(n) == << DigitChars[((n \div 10) % 10) + 1], DigitChars[(n % 10) + 1] >>

Pad4(n) == Pad2(n \div 100) \o Pad2(n % 100)

\* The formats of _format_esn, in their order.
DateFormats ==
    << "%m-%d-%y", "%Y-%m-%d", "%m/%d/%Y", "%d/%m/%Y", "%Y/%m/%d", "%m-%d-%Y" >>

\* The text of a date in a format.
FormatDate(fmt, date) ==
    CASE fmt = "%m-%d-%y" -> Pad2(date.m) \o << "-" >> \o Pad2(date.d) \o << "-" >>
                               \o Pad2(date.y % 100)
      [] fmt = "%Y-%m-%d" -> Pad4(date.y) \o << "-" >> \o Pad2(date.m) \o << "-" >>
                               \o Pad2(date.d)
      [] fmt = "%m/%d/%Y" -> Pad2(date.m) \o << "/" >> \o Pad2(date.d) \o << "/" >>
                               \o Pad4(date.y)
      [] fmt = "%d/%m/%Y" -> Pad2(date.d) \o << "/" >> \o Pad2(date.m) \o << "/" >>
                               \o Pad4(date.y)
      [] fmt = "%Y/%m/%d" -> Pad4(date.y) \o << "/" >> \o Pad2(date.m) \o << "/" >>
                               \o Pad2(date.d)
      [] fmt = "%m-%d-%Y" -> Pad2(date.m) \o << "-" >> \o Pad2(date.d) \o << "-" >>
                               \o Pad4(date.y)

\* The dates of the sheets of the model.
SheetDates ==
    { [ y |-> 2025, m |-> 11, d |-> 15 ], [ y |-> 2026, m |-> 1, d |-> 1 ],
      [ y |-> 2025, m |-> 3, d |-> 4 ] }

\* The cell texts of the date column: the dates in every format, and the
\* empty text.
DateCellTexts ==
    { FormatDate(DateFormats[f], date) : f \in 1..Len(DateFormats), date \in SheetDates }
    \cup { << >> }

\* str.split(sep)
RECURSIVE Split(_, _)
Split(text, sep) ==
    IF \A i \in 1..Len(text) : text[i] # sep THEN << text >>
    ELSE LET cut == CHOOSE i \in 1..Len(text) :
                        text[i] = sep /\ \A j \in 1..(i - 1) : text[j] # sep
         IN  << SubSeq(text, 1, cut - 1) >> \o Split(SubSeq(text, cut + 1, Len(text)), sep)

\* The year that the loop takes from one date text: the last part of the
\* split, with "20" before it when it has two characters; none (the empty
\* set) for a text without three parts or with a last part of another length.
YearsOfText(date_str) ==
    LET parts == IF \E i \in 1..Len(date_str) : date_str[i] = "-"
                 THEN Split(date_str, "-")
                 ELSE IF \E i \in 1..Len(date_str) : date_str[i] = "/"
                 THEN Split(date_str, "/")
                 ELSE << >>
        year_part == parts[Len(parts)]
    IN  IF Len(parts) < 3 THEN { }
        ELSE IF Len(year_part) = 2 THEN { << "2", "0" >> \o year_part }
        ELSE IF Len(year_part) = 4 THEN { year_part }
        ELSE { }

\* The order of str on texts of digits.
RECURSIVE StrLess(_, _)
StrLess(a, b) ==
    IF b = << >> THEN FALSE
    ELSE IF a = << >> THEN TRUE
    ELSE LET value(ch) == CHOOSE n \in 0..9 : DigitChars[n + 1] = ch
         IN  IF Head(a) # Head(b) THEN value(Head(a)) < value(Head(b))
             ELSE StrLess(Tail(a), Tail(b))

\* sorted(..., reverse=True) of a set of texts.
RECURSIVE SortedReverse(_)
SortedReverse(S) ==
    IF S = { } THEN << >>
    ELSE LET top == CHOOSE x \in S : \A y \in S : ~StrLess(x, y)
         IN  << top >> \o SortedReverse(S \ { top })

\* The years when the loop extracts none.
DataServiceDefaultYears ==
    { << "2", "0", "2", "5" >>, << "2", "0", "2", "6" >>, << "2", "0", "2", "7" >> }

\* The `years` of DataService.get_filter_options over the date column.
FilterOptionYears(date_col) ==
    LET unique_dates == { table[i][date_col] : i \in 1..Len(table) }
        years_set    == UNION { YearsOfText(date_str) : date_str \in unique_dates \ { << >> } }
        years        == IF years_set = { } THEN DataServiceDefaultYears ELSE years_set
    IN  SortedReverse(years)

\* The data frame: the date column under one of its two names, with up to
\* MaxRows cells.
InitFrame ==
    /\ \E date_col \in { "Target Ship Date", "Target_Ship_Date" } :
          /\ column_names = { date_col }
          /\ table \in UNION { [ 1..n -> [ { date_col } -> DateCellTexts ] ] :
                                 n \in 0..MaxRows }
    /\ main_table = "Output"
    /\ InitService
    /\ InitIdle

\* DataService.get_filter_options: the empty lists for an empty frame, else
\* the lists of the columns the frame has; this frame has the date column
\* only.
DataServiceGetFilterOptions ==
    /\ response = NoResponse
    /\ request' = [ op |-> "DataService.get_filter_options" ]
    /\ response' =
         [ status       |-> 200,
           productLines |-> << >>, configs |-> << >>, suppliers |-> << >>,
           rmSuppliers  |-> << >>, hwOwners |-> << >>, modules |-> << >>,
           partNumbers  |-> << >>,
           years        |-> IF table = << >> THEN << >>
                            ELSE FilterOptionYears(
                                     IF "Target Ship Date" \in column_names
                                     THEN "Target Ship Date" ELSE "Target_Ship_Date") ]
    /\ UNCHANGED first_response
    /\ UnchangedService /\ UnchangedCaches

NextYears == DataServiceGetFilterOptions \/ Complete

SpecYears == InitFrame /\ [][NextYears]_vars

\* The calendar years, as four digits, of the dates written in the cells.
CalendarYears ==
    { Pad4(date.y) : date \in { d \in SheetDates :
        \E i \in 1..Len(table), f \in 1..Len(DateFormats), c \in column_names :
            table[i][c] = FormatDate(DateFormats[f], d) } }

YearsAnswered ==
    /\ request.op = "DataService.get_filter_options"
    /\ \E i \in 1..Len(table), c \in column_names : table[i][c] # << >>

\* The list is in descending order and has no text twice.
YearsDescendingDistinct ==
    \A i, j \in 1..Len(response.years) :
        i < j => StrLess(response.years[j], response.years[i])

\* C30: for date texts in the formats the service accepts, the years of
\* DataService.get_filter_options are the four-digit calendar years of the
\* dates, in descending order, each once.
C30_YearsAreCalendarYears ==
    YearsAnswered
        => /\ Range(response.years) = CalendarYears
           /\ YearsDescendingDistinct

\* The list is descending and without duplicates whatever the formats.
C30_YearsDescendingDistinct == YearsAnswered => YearsDescendingDistinct

\* The years are the calendar years when every date has its year last:
\* MM-DD-YY, MM/DD/YYYY, DD/MM/YYYY, MM-DD-YYYY.
C30_YearLastFormats ==
    ( /\ YearsAnswered
      /\ \A i \in 1..Len(table), c \in column_names :
            table[i][c] \in { FormatDate(fmt, date) :
                                fmt \in { "%m-%d-%y", "%m/%d/%Y", "%d/%m/%Y", "%m-%d-%Y" },
                                date \in SheetDates } )
        => Range(response.years) = CalendarYears

=============================================================================
